---- MODULE Spec2Model ----
(***************************************************************************)
(* A model of the aa-video detector server: the zone filter               *)
(* (DetectorServer::FilterDetectionsByPolygons and Polygon::Contains),    *)
(* the per-request pipeline DetectorServer::ProcessFrame behind            *)
(* Observable::Invoke, and the process lifecycle of server/src/main.cpp   *)
(* with its SignalSet, and the library classes FrameBuffer and SignalSet.  *)
(*                                                                         *)
(* The specifications share the variables:                                *)
(*   SpecFilter  the zone filter applied to bounded inputs                *)
(*   Spec        request threads running ProcessFrame on the shared net   *)
(*   SpecMain    main() and the signal dispatch thread (with fairness)    *)
(*   SpecGeom    Polygon::Contains and Polygon::Scale on bounded inputs   *)
(*   SpecBoxes   ParseNetworkOutput and ScaleDetectionsToOriginalFrame    *)
(*   SpecNms     ApplyNonMaximumSuppression, applied twice                *)
(*   SpecBuffer  FrameBuffer under producers, consumers and Clear         *)
(*               (SpecBufferFair: with fair scheduling of the consumers)  *)
(*   SpecSignals two SignalSet objects, their threads and signals         *)
(*   SpecScale   Polygon::Scale on bounded polygons and factors           *)
(*   SpecSizes   the model-input size used by each stage of a request     *)
(***************************************************************************)
EXTENDS Integers, Sequences, FiniteSets, TLC

VARIABLES
    \* ---- zone filter (SpecFilter) ----
    fPc,            \* "ready" | "filtered"
    fPolygons,      \* the polygons argument of FilterDetectionsByPolygons
    fDetections,    \* the detections argument
    fSorted,        \* per detection: containing_polygons after std::sort (indices into fPolygons)
    fFiltered,      \* the returned filtered_detections
    \* ---- request pipeline (Spec) ----
    pc,             \* per request thread: position in Invoke / ProcessFrame
    request,        \* per thread: the decoded request (its polygons)
    ctxCancelled,   \* per thread: grpc::ServerContext::IsCancelled()
    cancelAt,       \* per thread: the position at which the transport cancelled ("none" if not)
    polygons,       \* per thread: ProcessFrame's local `polygons` after validation and sort
    blob,           \* per thread: preprocessed_blob (the id of the request it was made from)
    networkOutput,  \* per thread: network_output (the id of the request whose blob produced it)
    outputShape,    \* per thread: rank and detection_size of network_output
    detections,     \* per thread: the detection list handed from stage to stage
    filterInput,    \* per thread: the polygons the filter stage was called with
    raised,         \* per thread: the stages in which an exception was raised
    response,       \* per thread: ProcessFrameResponse [success, hasResult, boxes]
    status,         \* per thread: the grpc::Status code returned ("NONE" while running)
    trace,          \* per thread: the stages entered, in order
    netInput,       \* the shared dnn_network_: the blob last given to setInput
    \* ---- process lifecycle (SpecMain) ----
    mainPc,         \* position of main()
    server,         \* RpcServerFromThis::server_: "null" | "serving" | "shutdown"
    shutdownRequested, \* main's std::atomic<bool> shutdown_requested
    eventfd,        \* the SignalSet eventfd counter
    handlers,       \* SignalSet::handlers_: the signals with a registered handler
    sigPc,          \* position of the SignalSet::HandleSignals thread
    sigValue,       \* the value HandleSignals last read from the eventfd
    delivered,      \* the shutdown signals delivered after registration (history)
    sigBudget,      \* signals the environment may still deliver
    failure,        \* what went wrong at startup ("none" if nothing did; history)
    exitCode,       \* how the process ended ("running" until then)
    \* ---- polygon geometry (SpecGeom) ----
    gPc,            \* "ready" | "done"
    gVertices,      \* vertices_ of the polygon
    gPoint,         \* the query point (x, y)
    gScale,         \* the factors given to Scale (after the calls)
    gInside,        \* Contains(x, y) of the polygon
    gScaledInside,  \* Contains(sx * x, sy * y) of the polygon after Scale(sx, sy)
    \* ---- parser and inverse letterbox (SpecBoxes) ----
    bPc,            \* "ready" | "parsed" | "scaled"
    bTensor,        \* network_output given to ParseNetworkOutput
    bParsed,        \* the detections ParseNetworkOutput returned
    bFrame,         \* size of the frame given to ScaleDetectionsToOriginalFrame
    bScaled,        \* the detections ScaleDetectionsToOriginalFrame returned
    \* ---- non-maximum suppression (SpecNms) ----
    nPc,            \* "ready" | "once" | "twice"
    nInput,         \* the detections given to ApplyNonMaximumSuppression
    nSurvivors,     \* positions in nInput of the detections whose boxes NMSBoxes kept
    nOutput,        \* the detections returned
    nAgain,         \* the detections returned when nOutput is given to it again
    \* ---- FrameBuffer (SpecBuffer) ----
    frames,         \* frames_: the queued frames, oldest first (each frame is its id)
    qPc,            \* per consumer: position in PopFrame ("idle" between calls)
    qOut,           \* per consumer: the caller's output frame (0 until one is stored)
    qPopRet,        \* per consumer: what its last PopFrame returned: "true" | "false" ("none" before)
    qCalls,         \* per consumer: PopFrame calls it may still make
    qNext,          \* the id of the frame the next PushFrame call is given
    qRet,           \* what the last PushFrame returned: "true" | "false" ("none" before the first)
    qPushed,        \* the frames whose PushFrame returned true, in order (history)
    qPopped,        \* the frames PopFrame returned, in order: consumer, frame, whether it had blocked (history)
    qCleared,       \* the frames Clear removed (history)
    qClears,        \* Clear calls still to come
    \* ---- SignalSet objects (SpecSignals) ----
    ssLife,         \* per object: "unborn" | "alive" | "stopping" (inside Stop) | "stopped" | "destroyed"
    isActive,       \* per object: is_active_
    staticFd,       \* the static eventfd_ (-1 when none)
    shouldStop,     \* the static should_stop_
    fdCounter,      \* per file descriptor: the eventfd counter (-1 when not open)
    ssHandlers,     \* per object: the signals in handlers_
    ssOriginal,     \* per object and signal: original_handlers_ ("unsaved" when absent)
    disposition,    \* per signal: the action installed in the process
    thrPc,          \* per object: position of its HandleSignals thread
    thrFd,          \* per object: the local fd of HandleSignals
    thrValue,       \* per object: the local signal_data of HandleSignals
    ssInvoked,      \* per object and signal: calls of the handler so far (history)
    ssDelivered,    \* per object and signal: deliveries while the object was active and held a handler (history)
    ssBudget,       \* signals the environment may still deliver
    killed,         \* the process was ended by a signal with the default action
    \* ---- Polygon::Scale (SpecScale) ----
    kPc,            \* "ready" | "scaled"
    kPolygon,       \* the polygon before Scale
    kFactors,       \* the factors (sx, sy) given to Scale
    kScaled,        \* the polygon after Scale
    \* ---- model-input size (SpecSizes) ----
    zPc,            \* the stage of ProcessFrame that picks its size next
    zModel,         \* the option "model": the path, as its characters
    zWidth,         \* the option "width"
    zHeight,        \* the option "height"
    zUsed           \* per stage: the model-input size it used (<<0, 0>> until it has run)

filterVars == <<fPc, fPolygons, fDetections, fSorted, fFiltered>>
requestVars == <<pc, request, ctxCancelled, cancelAt, polygons, blob, networkOutput,
                 outputShape, detections, filterInput, raised, response, status, trace, netInput>>
mainVars == <<mainPc, server, shutdownRequested, eventfd, handlers, sigPc, sigValue,
              delivered, sigBudget, failure, exitCode>>
geomVars == <<gPc, gVertices, gPoint, gScale, gInside, gScaledInside>>
boxVars == <<bPc, bTensor, bParsed, bFrame, bScaled>>
nmsVars == <<nPc, nInput, nSurvivors, nOutput, nAgain>>
bufferVars == <<frames, qPc, qOut, qPopRet, qCalls, qNext, qRet, qPushed, qPopped,
                qCleared, qClears>>
signalVars == <<ssLife, isActive, staticFd, shouldStop, fdCounter, ssHandlers, ssOriginal,
                disposition, thrPc, thrFd, thrValue, ssInvoked, ssDelivered, ssBudget, killed>>
scaleVars == <<kPc, kPolygon, kFactors, kScaled>>
sizeVars == <<zPc, zModel, zWidth, zHeight, zUsed>>
libVars == <<bufferVars, signalVars, scaleVars, sizeVars>>
pureVars == <<geomVars, boxVars, nmsVars, libVars>>
vars == <<filterVars, requestVars, mainVars, pureVars>>

(***************************************************************************)
(* Bounds of the model.                                                    *)
(***************************************************************************)
MaxZones == 2        \* longest zone list given to the filter
MaxDetections == 1   \* longest detection list given to the filter
MaxSignals == 2      \* signals the environment delivers in one run
MaxRaised == 1       \* exceptions raised while one request is served

(***************************************************************************)
(* Small helpers.                                                          *)
(***************************************************************************)
SeqsUpTo(S, n) == UNION {[1..k -> S] : k \in 0..n}

Range(s) == {s[i] : i \in 1..Len(s)}

Perms(n) == {f \in [1..n -> 1..n] : \A i, j \in 1..n : f[i] = f[j] => i = j}

(***************************************************************************)
(* Polygon (shared/include/polygon.h): vertices, type, priority,          *)
(* target_classes.  Coordinates are integers.                             *)
(***************************************************************************)
PolygonTypes == {"UNSPECIFIED", "INCLUSION", "EXCLUSION"}

MkPolygon(v, t, p, c) == [vertices |-> v, type |-> t, priority |-> p, target_classes |-> c]

\* EPSILON = 1e-10.  A coordinate given to Contains counts steps of 5e-6, so a
\* product of two coordinate differences counts steps of 2.5e-11, of which
\* EPSILON is 4; a single coordinate difference (a whole number of steps) is
\* below EPSILON only when it is 0.
EPSILON == 4

\* std::abs(v) < EPSILON for a coordinate difference v.
BelowEpsilon(v) == v = 0

\* std::abs(cross_product) < EPSILON.
CrossBelowEpsilon(v) == -EPSILON < v /\ v < EPSILON

Min2(a, b) == IF a < b THEN a ELSE b
Max2(a, b) == IF a > b THEN a ELSE b

NeverOnLineSegment(px, py, x1, y1, x2, y2) == FALSE

\* The bounding-box test px < min_x - EPSILON is px < min_x on whole steps.
IsPointOnLineSegment(px, py, x1, y1, x2, y2) ==
    IF \/ px < Min2(x1, x2) \/ px > Max2(x1, x2)
       \/ py < Min2(y1, y2) \/ py > Max2(y1, y2)
    THEN FALSE
    ELSE CrossBelowEpsilon((x2 - x1) * (py - y1) - (y2 - y1) * (px - x1))

\* One step of the ray-casting loop: the ray from (x, y) toward +x crosses the
\* edge (vj, vi).  x < (xj - xi) * (y - yi) / (yj - yi) + xi is evaluated without
\* the division, by the sign of yj - yi (nonzero when the first conjunct holds).
RayCrosses(x, y, vi, vj) ==
    /\ (vi[2] > y) # (vj[2] > y)
    /\ IF vj[2] - vi[2] > 0
       THEN (x - vi[1]) * (vj[2] - vi[2]) < (vj[1] - vi[1]) * (y - vi[2])
       ELSE (x - vi[1]) * (vj[2] - vi[2]) > (vj[1] - vi[1]) * (y - vi[2])

Contains(vertices, x, y) ==
    LET n == Len(vertices)
        Next1(i) == (i % n) + 1
        Prev1(i) == IF i = 1 THEN n ELSE i - 1
        onBoundary ==
            \E i \in 1..n :
                \/ BelowEpsilon(x - vertices[i][1]) /\ BelowEpsilon(y - vertices[i][2])
                \/ IsPointOnLineSegment(x, y, vertices[i][1], vertices[i][2],
                                        vertices[Next1(i)][1], vertices[Next1(i)][2])
        crossings == Cardinality({i \in 1..n : RayCrosses(x, y, vertices[i], vertices[Prev1(i)])})
    IN  IF n < 3 THEN FALSE
        ELSE IF onBoundary THEN FALSE
        ELSE crossings % 2 = 1

ScaleUniform(poly, sx, sy) ==
    [poly EXCEPT !.vertices = [i \in 1..Len(poly.vertices) |->
                                 <<poly.vertices[i][1] * sx, poly.vertices[i][2] * sx>>]]

\* Polygon::Scale: every vertex multiplied componentwise, in place.
Scale(poly, sx, sy) ==
    [poly EXCEPT !.vertices = [i \in 1..Len(poly.vertices) |->
                                 <<poly.vertices[i][1] * sx, poly.vertices[i][2] * sy>>]]

(***************************************************************************)
(* Detection: bbox (x, y, width, height) in integer pixels, class_id,     *)
(* confidence (in hundredths).                                            *)
(***************************************************************************)
MkDetection(x, y, w, h, c, conf) ==
    [bbox |-> [x |-> x, y |-> y, width |-> w, height |-> h], class_id |-> c, confidence |-> conf]

\* GetDetectionCenter returns (x + width / 2.0, y + height / 2.0).  The centre is
\* kept in half-pixel units (twice the value) so that it stays an integer.
GetDetectionCenter(d) == <<2 * d.bbox.x + d.bbox.width, 2 * d.bbox.y + d.bbox.height>>

\* polygon.Contains(center_x, center_y) for a centre in half-pixel units: the
\* polygon is brought to the same units (a pixel of the filter is two steps).
ContainsCenter(poly, center) == Contains(Scale(poly, 2, 2).vertices, center[1], center[2])

\* FindContainingPolygons: pointers to the containing polygons, in list order.
\* A pointer is the index of the polygon in the list.
FindContainingPolygons(center, polys) ==
    SelectSeq([i \in 1..Len(polys) |-> i], LAMBDA i : ContainsCenter(polys[i], center))

\* The comparator of both std::sort calls: a.GetPriority() > b.GetPriority().
PriorityBefore(a, b) == a.priority > b.priority

\* std::sort(first, last, comp): the result is a permutation of the input in
\* which no element is ordered after one it must precede.  The relative order of
\* elements that compare equivalent is unspecified (std::sort is not
\* std::stable_sort), so every such permutation is a possible result.
StdSort(seq) ==
    LET n == Len(seq)
        orders == {g \in Perms(n) :
                    \A i, j \in 1..n : i < j => ~PriorityBefore(seq[g[j]], seq[g[i]])}
    IN  {[i \in 1..n |-> seq[g[i]]] : g \in orders}

IsDetectionClassAllowed(d, poly) ==
    IF Len(poly.target_classes) = 0 THEN TRUE
    ELSE d.class_id \in Range(poly.target_classes)

ShouldIncludeDetectionAnyZone(d, containing, polys) ==
    \E k \in 1..Len(containing) :
        /\ polys[containing[k]].type = "INCLUSION"
        /\ IsDetectionClassAllowed(d, polys[containing[k]])

\* ShouldIncludeDetection: only containing_polygons[0] is consulted.
ShouldIncludeDetection(d, containing, polys) ==
    IF Len(containing) = 0 THEN FALSE
    ELSE LET highest == polys[containing[1]]
         IN  IF highest.type = "EXCLUSION" THEN FALSE
             ELSE IF highest.type = "INCLUSION" THEN IsDetectionClassAllowed(d, highest)
             ELSE FALSE

\* The possible values of containing_polygons after the std::sort of the filter
\* loop, for one detection.
SortedContaining(d, polys) ==
    LET containing == FindContainingPolygons(GetDetectionCenter(d), polys)
        tagged == [k \in 1..Len(containing) |->
                     [index |-> containing[k], priority |-> polys[containing[k]].priority]]
    IN  {[k \in 1..Len(containing) |-> sorted[k].index] : sorted \in StdSort(tagged)}

\* All ways the per-detection sorts of one FilterDetectionsByPolygons call can
\* come out: one sorted containing list per detection.
RECURSIVE SortOutcomes(_, _)
SortOutcomes(dets, polys) ==
    IF Len(dets) = 0 THEN {<<>>}
    ELSE {<<s>> \o rest : s \in SortedContaining(Head(dets), polys),
                          rest \in SortOutcomes(Tail(dets), polys)}

\* FilterDetectionsByPolygons given the outcome of its sorts: the detections
\* that ShouldIncludeDetection admits, in input order.
RECURSIVE FilterDetectionsByPolygons(_, _, _)
FilterDetectionsByPolygons(dets, polys, sorted) ==
    IF Len(dets) = 0 THEN <<>>
    ELSE (IF ShouldIncludeDetection(Head(dets), Head(sorted), polys)
          THEN <<Head(dets)>> ELSE <<>>)
         \o FilterDetectionsByPolygons(Tail(dets), polys, Tail(sorted))


(***************************************************************************)
(* DetectorServer::ParseNetworkOutput.  A tensor is [dims, stride, rows]:  *)
(* its rank, detection_size, and one row per anchor (num_detections is the *)
(* number of rows).  A row holds centre and size of the box in sixteenths  *)
(* of the canvas, the box confidence and the class scores in tenths.       *)
(*                                                                         *)
(* A confidence of a detection is in hundredths.                           *)
(***************************************************************************)
ConfidenceThreshold == 10    \* confidence_threshold = 0.1f, in hundredths

MkAnchor(cx, cy, w, h, obj, scores) ==
    [center_x |-> cx, center_y |-> cy, width |-> w, height |-> h,
     box_confidence |-> obj, class_scores |-> scores]

MkTensor(dims, stride, rows) == [dims |-> dims, stride |-> stride, rows |-> rows]

\* The loop over the class scores: the running maximum starts at 0 and moves
\* only on a strictly larger score.  The result is <<max_class_confidence,
\* best_class_id>>.
RECURSIVE BestClass(_, _, _, _)
BestClass(scores, j, max_class_confidence, best_class_id) ==
    IF j > Len(scores) THEN <<max_class_confidence, best_class_id>>
    ELSE IF scores[j] > max_class_confidence
         THEN BestClass(scores, j + 1, scores[j], j - 1)
         ELSE BestClass(scores, j + 1, max_class_confidence, best_class_id)

\* The body of the anchor loop from the clamping on.  scaled_center_x =
\* center_x * network_width is in sixteenths of a pixel; x, y, scaled_width and
\* scaled_height are held in thirty-seconds of a pixel; static_cast<int> drops
\* the fraction of values that are not negative.
AnchorBox(a, net) ==
    LET full_w == 32 * net.width
        full_h == 32 * net.height
        sw == 2 * a.width * net.width
        sh == 2 * a.height * net.height
        x0 == 2 * a.center_x * net.width - a.width * net.width
        y0 == 2 * a.center_y * net.height - a.height * net.height
        x == Max2(0, Min2(x0, full_w - sw))
        y == Max2(0, Min2(y0, full_h - sh))
        w == Max2(32, Min2(sw, full_w - x))
        h == Max2(32, Min2(sh, full_h - y))
    IN  [x |-> x \div 32, y |-> y \div 32, width |-> w \div 32, height |-> h \div 32]

ParseAnchorOnBoxConfidence(a, net) ==
    IF a.box_confidence * 10 < ConfidenceThreshold THEN <<>>
    ELSE LET best == BestClass(a.class_scores, 1, 0, -1)
         IN  IF best[2] < 0 THEN <<>>
             ELSE <<[bbox |-> AnchorBox(a, net), class_id |-> best[2],
                     confidence |-> a.box_confidence * best[1]]>>

\* One pass of the anchor loop: nothing, or the detection pushed.
ParseAnchor(a, net) ==
    IF a.box_confidence * 10 < ConfidenceThreshold THEN <<>>
    ELSE LET best == BestClass(a.class_scores, 1, 0, -1)
             final_confidence == a.box_confidence * best[1]
         IN  IF final_confidence < ConfidenceThreshold \/ best[2] < 0 THEN <<>>
             ELSE <<[bbox |-> AnchorBox(a, net), class_id |-> best[2],
                     confidence |-> final_confidence]>>

RECURSIVE ParseRows(_, _)
ParseRows(rows, net) ==
    IF Len(rows) = 0 THEN <<>>
    ELSE ParseAnchor(Head(rows), net) \o ParseRows(Tail(rows), net)

ParseWhateverShape(tensor, net) == ParseRows(tensor.rows, net)

\* ParseNetworkOutput for the network input size net (options width/height).
ParseNetworkOutput(tensor, net) ==
    IF tensor.dims < 2 THEN <<>>
    ELSE IF tensor.dims > 4 THEN <<>>
    ELSE IF tensor.stride < 5 THEN <<>>
    ELSE IF Len(tensor.rows) <= 0 THEN <<>>
    ELSE ParseRows(tensor.rows, net)

(***************************************************************************)
(* The stages of DetectorServer::PostprocessDetections after the parser.   *)
(***************************************************************************)
ScoreThreshold == 10    \* score_threshold = 0.1f, in hundredths
NmsThreshold == 45      \* nms_threshold = 0.45f, in hundredths

MaxOfSet(S) == IF S = {} THEN 0 ELSE CHOOSE m \in S : \A x \in S : x <= m

Area(b) == b.width * b.height

\* (a & b).area() of two cv::Rect.
IntersectionArea(a, b) ==
    LET w == Min2(a.x + a.width, b.x + b.width) - Max2(a.x, b.x)
        h == Min2(a.y + a.height, b.y + b.height) - Max2(a.y, b.y)
    IN  IF w > 0 /\ h > 0 THEN w * h ELSE 0

\* overlap <= nms_threshold, with overlap = inter / (Aa + Ab - inter) and an
\* overlap of 1 for two empty boxes.
OverlapWithin(a, b) ==
    LET inter == IntersectionArea(a, b)
        union == Area(a) + Area(b) - inter
    IN  IF Area(a) + Area(b) <= 0 THEN 100 <= NmsThreshold
        ELSE inter * 100 <= NmsThreshold * union

\* cv::dnn::NMSBoxes(boxes, scores, score_threshold, nms_threshold, indices):
\* the candidates are the indices with score > score_threshold, stably sorted by
\* descending score; one is kept when its overlap with every kept box is within
\* the threshold.  order is the sorted index list still to visit.
RECURSIVE NmsGreedy(_, _, _)
NmsGreedy(boxes, order, kept) ==
    IF Len(order) = 0 THEN kept
    ELSE LET i == Head(order)
             keep == \A k \in 1..Len(kept) : OverlapWithin(boxes[i], boxes[kept[k]])
         IN  NmsGreedy(boxes, Tail(order), IF keep THEN Append(kept, i) ELSE kept)

RECURSIVE InputOrder(_, _)
InputOrder(scores, todo) ==
    IF todo = {} THEN <<>>
    ELSE LET first == CHOOSE i \in todo : \A j \in todo : i <= j
         IN  <<first>> \o InputOrder(scores, todo \ {first})

\* The indices 1..n with score above the threshold, by descending score, equal
\* scores in index order (std::stable_sort).
RECURSIVE ScoreOrder(_, _)
ScoreOrder(scores, todo) ==
    IF todo = {} THEN <<>>
    ELSE LET best == CHOOSE i \in todo :
                        \A j \in todo : \/ scores[i] > scores[j]
                                        \/ scores[i] = scores[j] /\ i <= j
         IN  <<best>> \o ScoreOrder(scores, todo \ {best})

NMSBoxes(boxes, scores) ==
    NmsGreedy(boxes,
              ScoreOrder(scores, {i \in 1..Len(scores) : scores[i] > ScoreThreshold}),
              <<>>)

NoClassOffset(d, max_coord) == 0

\* class_offset = class_id * (max_coord + 1.0f).
ClassOffset(d, max_coord) == d.class_id * (max_coord + 1)

\* The first part of ApplyNonMaximumSuppression: the detections at or above the
\* score threshold (`passing` holds their positions in the input) are copied
\* into boxes with a per-class offset added to x and y, and NMSBoxes is run on
\* them.  The result is nms_indices: positions in boxes, counted from 1.
NmsIndices(dets) ==
    LET passing == SelectSeq([i \in 1..Len(dets) |-> i],
                             LAMBDA i : dets[i].confidence >= ScoreThreshold)
        max_coord == MaxOfSet({Max2(dets[i].bbox.x + dets[i].bbox.width,
                                    dets[i].bbox.y + dets[i].bbox.height) :
                               i \in Range(passing)})
        boxes == [k \in 1..Len(passing) |->
                    LET d == dets[passing[k]]
                        class_offset == ClassOffset(d, max_coord)
                    IN  [d.bbox EXCEPT !.x = @ + class_offset, !.y = @ + class_offset]]
        confidences == [k \in 1..Len(passing) |-> dets[passing[k]].confidence]
    IN  NMSBoxes(boxes, confidences)

\* The positions in the input of the detections whose boxes NMSBoxes kept.
SurvivingPositions(dets) ==
    LET passing == SelectSeq([i \in 1..Len(dets) |-> i],
                             LAMBDA i : dets[i].confidence >= ScoreThreshold)
        nms_indices == NmsIndices(dets)
    IN  [k \in 1..Len(nms_indices) |-> passing[nms_indices[k]]]

\* ApplyNonMaximumSuppression: the indices NMSBoxes returns are looked up in
\* the input list, detections[idx].
ApplyNonMaximumSuppression(dets) ==
    IF Len(dets) = 0 THEN dets
    ELSE LET nms_indices == NmsIndices(dets)
         IN  [k \in 1..Len(nms_indices) |-> dets[nms_indices[k]]]

\* ScaleDetectionsToOriginalFrame(detections, original_frame) for a network
\* input size net (options width/height) and the size orig of the frame it is
\* given.  scale = min(net.width / orig.width, net.height / orig.height) is the
\* fraction num / den; a real r is held as the integer r * num.
ScaleDetectionsToOriginalFrame(dets, net, orig) ==
    IF Len(dets) = 0 THEN dets
    ELSE LET byWidth == net.width * orig.height <= net.height * orig.width
             num == IF byWidth THEN net.width ELSE net.height
             den == IF byWidth THEN orig.width ELSE orig.height
             new_width == (orig.width * num) \div den
             new_height == (orig.height * num) \div den
             dx == (net.width - new_width) \div 2
             dy == (net.height - new_height) \div 2
             One(d) ==
                 LET x == Max2(0, Min2((d.bbox.x - dx) * den, orig.width * num))
                     y == Max2(0, Min2((d.bbox.y - dy) * den, orig.height * num))
                     w == Max2(num, Min2(d.bbox.width * den, orig.width * num - x))
                     h == Max2(num, Min2(d.bbox.height * den, orig.height * num - y))
                 IN  [d EXCEPT !.bbox = [x |-> x \div num, y |-> y \div num,
                                         width |-> w \div num, height |-> h \div num]]
         IN  [i \in 1..Len(dets) |-> One(dets[i])]


(***************************************************************************)
(* SpecFilter: FilterDetectionsByPolygons applied to bounded inputs.       *)
(***************************************************************************)
BigSquare == <<<<0, 0>>, <<8, 0>>, <<8, 8>>, <<0, 8>>>>
LeftHalf == <<<<0, 0>>, <<4, 0>>, <<4, 8>>, <<0, 8>>>>
Segment == <<<<0, 0>>, <<8, 8>>>>

Priorities == {1, 2}
ClassLists == {<<>>, <<1>>}

ZoneChoices ==
    {MkPolygon(v, t, p, c) : v \in {BigSquare, LeftHalf}, t \in {"INCLUSION", "EXCLUSION"},
                             p \in Priorities, c \in ClassLists}
    \cup {MkPolygon(BigSquare, "UNSPECIFIED", 2, <<>>), MkPolygon(Segment, "INCLUSION", 2, <<>>)}

\* Boxes whose centre is inside both shapes (1.5, 1.5), on the right edge of
\* LeftHalf (4, 2), and outside both (9, 9).
DetectionChoices ==
    {MkDetection(b[1], b[2], b[3], b[4], c, 90) :
        b \in {<<1, 1, 1, 1>>, <<3, 1, 2, 2>>, <<8, 8, 2, 2>>}, c \in {0, 1}}

FilterIdle ==
    /\ fPc = "off"
    /\ fPolygons = <<>>
    /\ fDetections = <<>>
    /\ fSorted = <<>>
    /\ fFiltered = <<>>

FilterInit ==
    /\ fPc = "ready"
    /\ fPolygons \in SeqsUpTo(ZoneChoices, MaxZones)
    /\ fDetections \in SeqsUpTo(DetectionChoices, MaxDetections)
    /\ fSorted = <<>>
    /\ fFiltered = <<>>

ApplyFilter ==
    /\ fPc = "ready"
    /\ \E sorted \in SortOutcomes(fDetections, fPolygons) :
          /\ fSorted' = sorted
          /\ fFiltered' = FilterDetectionsByPolygons(fDetections, fPolygons, sorted)
    /\ fPc' = "filtered"
    /\ UNCHANGED <<fPolygons, fDetections, requestVars, mainVars, pureVars>>


(***************************************************************************)
(* Spec: request threads.  Each thread serves one ProcessFrame request:    *)
(* DetectorServiceImpl::ProcessFrame -> Observable::Invoke ->              *)
(* DetectorServer::ProcessFrame.  The threads share dnn_network_.          *)
(***************************************************************************)
Threads == {"t1", "t2"}

\* Sizes of the miniature frames: the request frame, the model size of
\* ProcessFrame and the network input size of the options, in pixels.
FrameSize == [width |-> 4, height |-> 4]
ModelSize == [width |-> 8, height |-> 8]
NetworkSize == [width |-> 8, height |-> 8]

WholeFrame == <<<<0, 0>>, <<4, 0>>, <<4, 4>>, <<0, 4>>>>
TwoVertices == <<<<0, 0>>, <<4, 4>>>>

\* The zone lists a request may carry (original-frame coordinates).
RequestZoneLists ==
    { <<>>,
      <<MkPolygon(WholeFrame, "UNSPECIFIED", 1, <<>>)>>,
      <<MkPolygon(WholeFrame, "UNSPECIFIED", 3, <<>>), MkPolygon(WholeFrame, "EXCLUSION", 1, <<>>),
        MkPolygon(WholeFrame, "INCLUSION", 2, <<1>>)>>,
      <<MkPolygon(TwoVertices, "INCLUSION", 1, <<>>)>>,
      <<MkPolygon(WholeFrame, "INCLUSION", 1, <<>>), MkPolygon(WholeFrame, "EXCLUSION", 1, <<>>)>> }

\* The inference operator is opaque: the rows of the tensor it computes from
\* the blob of request src.  Each holds one anchor: a 2 x 2 box at (2, 2) of
\* class 0 for the first request, at (4, 4) of class 1 for the second.
NetRows(src) ==
    IF src = "t1" THEN <<MkAnchor(6, 6, 4, 4, 10, <<9, 0>>)>>
    ELSE <<MkAnchor(10, 10, 4, 4, 10, <<0, 8>>)>>

\* Rank and detection_size the output tensor may have: a well-formed one, one
\* of rank 5, one of 4 values per anchor.
OutputShapes == {[dims |-> 3, stride |-> 7], [dims |-> 5, stride |-> 7],
                 [dims |-> 3, stride |-> 4]}

NoShape == [dims |-> 0, stride |-> 0]

NetOutput(src, shape) == MkTensor(shape.dims, shape.stride, NetRows(src))

\* What a call can do: return, throw cv::Exception, throw another std::exception.
Outcomes == {"ok", "cv", "std"}

\* The outcomes a call of thread t may still have within the bound.
OutcomesFor(t) == IF Cardinality(raised[t]) < MaxRaised THEN Outcomes ELSE {"ok"}

StageOrder == <<"validate", "preprocess", "inference", "parse", "nms", "scale",
                "filter", "render", "respond">>

InitialResponse == [touched |-> FALSE, success |-> FALSE, hasResult |-> FALSE, boxes |-> <<>>]

\* response->set_success(false)
SetSuccessFalse(r) == [r EXCEPT !.touched = TRUE, !.success = FALSE]

RequestIdle ==
    /\ pc = [t \in Threads |-> "off"]
    /\ request = [t \in Threads |-> <<>>]
    /\ ctxCancelled = [t \in Threads |-> FALSE]
    /\ cancelAt = [t \in Threads |-> "none"]
    /\ polygons = [t \in Threads |-> <<>>]
    /\ blob = [t \in Threads |-> "none"]
    /\ networkOutput = [t \in Threads |-> "none"]
    /\ outputShape = [t \in Threads |-> NoShape]
    /\ detections = [t \in Threads |-> <<>>]
    /\ filterInput = [t \in Threads |-> <<>>]
    /\ raised = [t \in Threads |-> {}]
    /\ response = [t \in Threads |-> InitialResponse]
    /\ status = [t \in Threads |-> "NONE"]
    /\ trace = [t \in Threads |-> <<>>]
    /\ netInput = "none"

RequestInit ==
    /\ pc = [t \in Threads |-> "idle"]
    /\ request = [t \in Threads |-> <<>>]
    /\ ctxCancelled = [t \in Threads |-> FALSE]
    /\ cancelAt = [t \in Threads |-> "none"]
    /\ polygons = [t \in Threads |-> <<>>]
    /\ blob = [t \in Threads |-> "none"]
    /\ networkOutput = [t \in Threads |-> "none"]
    /\ outputShape = [t \in Threads |-> NoShape]
    /\ detections = [t \in Threads |-> <<>>]
    /\ filterInput = [t \in Threads |-> <<>>]
    /\ raised = [t \in Threads |-> {}]
    /\ response = [t \in Threads |-> InitialResponse]
    /\ status = [t \in Threads |-> "NONE"]
    /\ trace = [t \in Threads |-> <<>>]
    /\ netInput = "none"

\* The handler returns `code` with the response as given.
Return(t, code, resp) ==
    /\ status' = [status EXCEPT ![t] = code]
    /\ response' = [response EXCEPT ![t] = resp]
    /\ pc' = [pc EXCEPT ![t] = "done"]

Goto(t, where) ==
    /\ pc' = [pc EXCEPT ![t] = where]
    /\ UNCHANGED <<status, response>>

Enter(t, stage) == trace' = [trace EXCEPT ![t] = Append(@, stage)]

Raise(t, stage, o) ==
    raised' = IF o = "ok" THEN raised ELSE [raised EXCEPT ![t] = @ \cup {stage}]

\* A request arrives on a transport thread.
Receive(t) ==
    /\ pc[t] = "idle"
    /\ \E zl \in RequestZoneLists : request' = [request EXCEPT ![t] = zl]
    /\ pc' = [pc EXCEPT ![t] = "received"]
    /\ UNCHANGED <<ctxCancelled, cancelAt, polygons, blob, networkOutput, outputShape,
                   detections, filterInput, raised, response, status, trace, netInput>>
    /\ UNCHANGED <<filterVars, mainVars, pureVars>>

\* The transport cancels the request (client cancel or deadline).
Cancel(t) ==
    /\ pc[t] \notin {"idle", "done"}
    /\ ~ctxCancelled[t]
    /\ ctxCancelled' = [ctxCancelled EXCEPT ![t] = TRUE]
    /\ cancelAt' = [cancelAt EXCEPT ![t] = IF pc[t] = "received" THEN "before_invoke"
                                            ELSE "in_handler"]
    /\ UNCHANGED <<pc, request, polygons, blob, networkOutput, outputShape, detections,
                   filterInput, raised, response, status, trace, netInput>>
    /\ UNCHANGED <<filterVars, mainVars, pureVars>>

InvokeWithoutCheck(t) ==
    /\ pc[t] = "received"
    /\ Goto(t, "validate")
    /\ UNCHANGED <<request, outputShape, ctxCancelled, cancelAt, polygons, blob, networkOutput,
                   detections, filterInput, raised, trace, netInput>>
    /\ UNCHANGED <<filterVars, mainVars, pureVars>>

\* Observable::Invoke: CANCELLED if the context is cancelled, else the handler.
Invoke(t) ==
    /\ pc[t] = "received"
    /\ IF ctxCancelled[t]
       THEN Return(t, "CANCELLED", response[t])
       ELSE Goto(t, "validate")
    /\ UNCHANGED <<request, outputShape, ctxCancelled, cancelAt, polygons, blob, networkOutput,
                   detections, filterInput, raised, trace, netInput>>
    /\ UNCHANGED <<filterVars, mainVars, pureVars>>

SkipNothing(zl) == zl

\* The polygons of the request whose type is not UNSPECIFIED, in request order.
SkipUnspecified(zl) == SelectSeq(zl, LAMBDA z : z.type # "UNSPECIFIED")

\* ProcessFrame up to the call of PreprocessFrame: the zone checks, the sort of
\* the zones, and the decoding and resizing of the frame (which may throw).
Validate(t) ==
    /\ pc[t] = "validate"
    /\ Enter(t, "validate")
    /\ IF Len(request[t]) = 0
       THEN /\ Return(t, "INVALID_ARGUMENT", SetSuccessFalse(response[t]))
            /\ UNCHANGED <<polygons, raised>>
       ELSE IF Len(SkipUnspecified(request[t])) = 0
       THEN /\ Return(t, "INVALID_ARGUMENT", SetSuccessFalse(response[t]))
            /\ UNCHANGED <<polygons, raised>>
       ELSE \E sorted \in StdSort(SkipUnspecified(request[t])) :
            \E o \in OutcomesFor(t) :
                /\ polygons' = [polygons EXCEPT ![t] = sorted]
                /\ Raise(t, "decode", o)
                /\ IF o = "ok" THEN Goto(t, "preprocess")
                   ELSE Return(t, "INTERNAL", response[t])
    /\ UNCHANGED <<request, outputShape, ctxCancelled, cancelAt, blob, networkOutput, detections,
                   filterInput, netInput>>
    /\ UNCHANGED <<filterVars, mainVars, pureVars>>

\* PreprocessFrame and the check of its result.  PreprocessFrame catches
\* cv::Exception and returns an empty Mat; anything else reaches the catch of
\* ProcessFrame.
Preprocess(t) ==
    /\ pc[t] = "preprocess"
    /\ Enter(t, "preprocess")
    /\ \E o \in OutcomesFor(t) :
          /\ Raise(t, "preprocess", o)
          /\ IF o = "ok"
             THEN /\ blob' = [blob EXCEPT ![t] = t]
                  /\ Goto(t, "setInput")
             ELSE /\ UNCHANGED blob
                  /\ Return(t, "INTERNAL",
                            IF o = "cv" THEN SetSuccessFalse(response[t]) ELSE response[t])
    /\ UNCHANGED <<request, outputShape, ctxCancelled, cancelAt, polygons, networkOutput, detections,
                   filterInput, netInput>>
    /\ UNCHANGED <<filterVars, mainVars, pureVars>>

\* RunInference, first half: dnn_network_.setInput(blob).  An exception is
\* caught in RunInference, which returns an empty Mat.
SetInput(t) ==
    /\ pc[t] = "setInput"
    /\ Enter(t, "inference")
    /\ \E o \in OutcomesFor(t) :
          /\ Raise(t, "inference", o)
          /\ IF o = "ok"
             THEN /\ netInput' = blob[t]
                  /\ Goto(t, "forward")
             ELSE /\ UNCHANGED netInput
                  /\ Return(t, "INTERNAL", SetSuccessFalse(response[t]))
    /\ UNCHANGED <<request, outputShape, ctxCancelled, cancelAt, polygons, blob, networkOutput,
                   detections, filterInput>>
    /\ UNCHANGED <<filterVars, mainVars, pureVars>>

\* RunInference, second half: dnn_network_.forward() on whatever input the
\* network holds, and the check of the result in ProcessFrame.
Forward(t) ==
    /\ pc[t] = "forward"
    /\ \E o \in OutcomesFor(t) \cup {"empty"} :
          /\ Raise(t, "inference", IF o = "empty" THEN "ok" ELSE o)
          /\ IF o = "ok"
             THEN /\ networkOutput' = [networkOutput EXCEPT ![t] = netInput]
                  /\ \E shape \in OutputShapes :
                        outputShape' = [outputShape EXCEPT ![t] = shape]
                  /\ Goto(t, "parse")
             ELSE /\ UNCHANGED <<networkOutput, outputShape>>
                  /\ Return(t, "INTERNAL", SetSuccessFalse(response[t]))
    /\ UNCHANGED <<request, ctxCancelled, cancelAt, polygons, blob, detections,
                   filterInput, trace, netInput>>
    /\ UNCHANGED <<filterVars, mainVars, pureVars>>

\* PostprocessDetections: ParseNetworkOutput.  It catches std::exception and
\* returns the detections parsed so far.
Parse(t) ==
    /\ pc[t] = "parse"
    /\ Enter(t, "parse")
    /\ \E o \in OutcomesFor(t) :
          /\ Raise(t, "parse", o)
          /\ LET all == ParseNetworkOutput(NetOutput(networkOutput[t], outputShape[t]),
                                            NetworkSize)
             IN  IF o = "ok"
                 THEN detections' = [detections EXCEPT ![t] = all]
                 ELSE \E k \in 0..(Len(all) - 1) :
                         detections' = [detections EXCEPT ![t] = SubSeq(all, 1, k)]
    /\ Goto(t, "nms")
    /\ UNCHANGED <<request, outputShape, ctxCancelled, cancelAt, polygons, blob, networkOutput,
                   filterInput, netInput>>
    /\ UNCHANGED <<filterVars, mainVars, pureVars>>

NmsThenFilter(t) ==
    /\ pc[t] = "nms"
    /\ Enter(t, "nms")
    /\ detections' = [detections EXCEPT ![t] = ApplyNonMaximumSuppression(@)]
    /\ Goto(t, "filter")
    /\ UNCHANGED <<request, outputShape, ctxCancelled, cancelAt, polygons, blob, networkOutput,
                   filterInput, raised, netInput>>
    /\ UNCHANGED <<filterVars, mainVars, pureVars>>

NmsLosingInput(t) ==
    /\ pc[t] = "nms"
    /\ Enter(t, "nms")
    /\ \E o \in OutcomesFor(t) :
          /\ o # "ok" => Len(detections[t]) > 0
          /\ Raise(t, "nms", o)
          /\ detections' = [detections EXCEPT ![t] =
                               IF o = "ok" THEN ApplyNonMaximumSuppression(@) ELSE <<>>]
    /\ Goto(t, "scale")
    /\ UNCHANGED <<request, outputShape, ctxCancelled, cancelAt, polygons, blob, networkOutput,
                   filterInput, netInput>>
    /\ UNCHANGED <<filterVars, mainVars, pureVars>>

\* PostprocessDetections: ApplyNonMaximumSuppression.  It returns an empty list
\* at once; otherwise it catches std::exception and returns its input.
Nms(t) ==
    /\ pc[t] = "nms"
    /\ Enter(t, "nms")
    /\ \E o \in OutcomesFor(t) :
          /\ o # "ok" => Len(detections[t]) > 0
          /\ Raise(t, "nms", o)
          /\ detections' = [detections EXCEPT ![t] =
                               IF o = "ok" THEN ApplyNonMaximumSuppression(@) ELSE @]
    /\ Goto(t, "scale")
    /\ UNCHANGED <<request, outputShape, ctxCancelled, cancelAt, polygons, blob, networkOutput,
                   filterInput, netInput>>
    /\ UNCHANGED <<filterVars, mainVars, pureVars>>

\* PostprocessDetections: ScaleDetectionsToOriginalFrame, called with the
\* resized frame (of the model size).  Same recovery as the NMS stage.
ScaleDetections(t) ==
    /\ pc[t] = "scale"
    /\ Enter(t, "scale")
    /\ \E o \in OutcomesFor(t) :
          /\ o # "ok" => Len(detections[t]) > 0
          /\ Raise(t, "scale", o)
          /\ detections' = [detections EXCEPT ![t] =
                               IF o = "ok"
                               THEN ScaleDetectionsToOriginalFrame(@, NetworkSize, ModelSize)
                               ELSE @]
    /\ Goto(t, "filter")
    /\ UNCHANGED <<request, outputShape, ctxCancelled, cancelAt, polygons, blob, networkOutput,
                   filterInput, netInput>>
    /\ UNCHANGED <<filterVars, mainVars, pureVars>>

\* scaled_polygons: each polygon scaled by model size / frame size.
ScaledPolygons(polys) ==
    [i \in 1..Len(polys) |-> Scale(polys[i], ModelSize.width \div FrameSize.width,
                                   ModelSize.height \div FrameSize.height)]

\* PostprocessDetections: FilterDetectionsByPolygons on the scaled polygons.
\* An exception reaches the catch of PostprocessDetections, which returns the
\* still empty `detections`.
Filter(t) ==
    /\ pc[t] = "filter"
    /\ Enter(t, "filter")
    /\ filterInput' = [filterInput EXCEPT ![t] = ScaledPolygons(polygons[t])]
    /\ \E o \in OutcomesFor(t) :
          /\ Raise(t, "filter", o)
          /\ IF o = "ok"
             THEN \E sorted \in SortOutcomes(detections[t], ScaledPolygons(polygons[t])) :
                     detections' = [detections EXCEPT ![t] =
                         FilterDetectionsByPolygons(@, ScaledPolygons(polygons[t]), sorted)]
             ELSE detections' = [detections EXCEPT ![t] = <<>>]
    /\ Goto(t, "render")
    /\ UNCHANGED <<request, outputShape, ctxCancelled, cancelAt, polygons, blob, networkOutput, netInput>>
    /\ UNCHANGED <<filterVars, mainVars, pureVars>>

RenderIgnoringException(t) ==
    /\ pc[t] = "render"
    /\ Enter(t, "render")
    /\ \E o \in OutcomesFor(t) : Raise(t, "render", o)
    /\ Goto(t, "serialize")
    /\ UNCHANGED <<request, outputShape, ctxCancelled, cancelAt, polygons, blob, networkOutput,
                   detections, filterInput, netInput>>
    /\ UNCHANGED <<filterVars, mainVars, pureVars>>

\* DrawBoundingBoxes on a clone of the input frame.  An exception reaches the
\* catch of ProcessFrame.
Render(t) ==
    /\ pc[t] = "render"
    /\ Enter(t, "render")
    /\ \E o \in OutcomesFor(t) :
          /\ Raise(t, "render", o)
          /\ IF o = "ok" THEN Goto(t, "serialize")
             ELSE Return(t, "INTERNAL", response[t])
    /\ UNCHANGED <<request, outputShape, ctxCancelled, cancelAt, polygons, blob, networkOutput,
                   detections, filterInput, netInput>>
    /\ UNCHANGED <<filterVars, mainVars, pureVars>>

\* Frame(result).ToProto(), response->mutable_result()->CopyFrom(...),
\* response->set_success(true), return OK.
Respond(t) ==
    /\ pc[t] = "serialize"
    /\ Enter(t, "respond")
    /\ \E o \in OutcomesFor(t) :
          /\ Raise(t, "serialize", o)
          /\ IF o = "ok"
             THEN Return(t, "OK", [touched |-> TRUE, success |-> TRUE, hasResult |-> TRUE,
                                   boxes |-> detections[t]])
             ELSE Return(t, "INTERNAL", response[t])
    /\ UNCHANGED <<request, outputShape, ctxCancelled, cancelAt, polygons, blob, networkOutput,
                   detections, filterInput, netInput>>
    /\ UNCHANGED <<filterVars, mainVars, pureVars>>

RequestNext ==
    \E t \in Threads :
        \/ Receive(t)
        \/ Cancel(t)
        \/ Invoke(t)
        \/ Validate(t)
        \/ Preprocess(t)
        \/ SetInput(t)
        \/ Forward(t)
        \/ Parse(t)
        \/ Nms(t)
        \/ ScaleDetections(t)
        \/ Filter(t)
        \/ Render(t)
        \/ Respond(t)


(***************************************************************************)
(* SpecMain: main() of the server and the SignalSet dispatch thread.       *)
(***************************************************************************)
Signals == {"SIGINT", "SIGTERM", "SIGUSR1"}
ShutdownSignals == {"SIGINT", "SIGTERM"}

\* The signal numbers of <signal.h> on Linux.
SigNum == [SIGINT |-> 2, SIGTERM |-> 15, SIGUSR1 |-> 10]

MainIdle ==
    /\ mainPc = "off"
    /\ server = "null"
    /\ shutdownRequested = FALSE
    /\ eventfd = 0
    /\ handlers = {}
    /\ sigPc = "off"
    /\ sigValue = 0
    /\ delivered = {}
    /\ sigBudget = 0
    /\ failure = "none"
    /\ exitCode = "running"

MainInit ==
    /\ mainPc = "options"
    /\ server = "null"
    /\ shutdownRequested = FALSE
    /\ eventfd = 0
    /\ handlers = {}
    /\ sigPc = "off"
    /\ sigValue = 0
    /\ delivered = {}
    /\ sigBudget = MaxSignals
    /\ failure = "none"
    /\ exitCode = "running"

Exit(code) ==
    /\ exitCode' = code
    /\ mainPc' = "exited"

\* Options options(argc, argv, ...); if (!options.IsValid()) return 1;
ParseOptions ==
    /\ mainPc = "options"
    /\ \E valid \in BOOLEAN :
          IF valid
          THEN /\ mainPc' = "construct"
               /\ UNCHANGED <<failure, exitCode>>
          ELSE /\ failure' = "invalid_options"
               /\ Exit("1")
    /\ UNCHANGED <<server, shutdownRequested, eventfd, handlers, sigPc, sigValue,
                   delivered, sigBudget>>
    /\ UNCHANGED <<filterVars, requestVars, pureVars>>

\* DetectorServer server(options); SignalSet signal_set; -- the constructor of
\* SignalSet creates the eventfd and starts the HandleSignals thread.
Construct ==
    /\ mainPc = "construct"
    /\ mainPc' = "add_SIGINT"
    /\ sigPc' = "read"
    /\ UNCHANGED <<server, shutdownRequested, eventfd, handlers, sigValue, delivered,
                   sigBudget, failure, exitCode>>
    /\ UNCHANGED <<filterVars, requestVars, pureVars>>

\* signal_set.Add(sig, handler): stores the handler and installs
\* StaticSignalHandler with sigaction.
AddHandler(sig, next) ==
    /\ mainPc = "add_" \o sig
    /\ handlers' = handlers \cup {sig}
    /\ mainPc' = next
    /\ UNCHANGED <<server, shutdownRequested, eventfd, sigPc, sigValue, delivered,
                   sigBudget, failure, exitCode>>
    /\ UNCHANGED <<filterVars, requestVars, pureVars>>

\* server.Initialize(), outside the try block of main: InitializeNetwork
\* throws std::runtime_error when LoadModel fails, nothing catches it, and
\* std::terminate aborts the process.
Initialize ==
    /\ mainPc = "initialize"
    /\ \E loaded \in BOOLEAN :
          IF loaded
          THEN /\ mainPc' = "build"
               /\ UNCHANGED <<failure, exitCode>>
          ELSE /\ failure' = "model_load_failed"
               /\ Exit("SIGABRT")
    /\ UNCHANGED <<server, shutdownRequested, eventfd, handlers, sigPc, sigValue,
                   delivered, sigBudget>>
    /\ UNCHANGED <<filterVars, requestVars, pureVars>>

\* server.Start(), first half: service_->Build().  BuildAndStart returns the
\* running server, or null when the port cannot be bound; an exception is
\* caught in main, which returns 1.
Build ==
    /\ mainPc = "build"
    /\ \E o \in {"serving", "null", "throw"} :
          IF o = "throw"
          THEN /\ failure' = "start_threw"
               /\ Exit("1")
               /\ UNCHANGED server
          ELSE /\ server' = o
               /\ failure' = IF o = "null" THEN "listen_failed" ELSE failure
               /\ mainPc' = "wait"
               /\ UNCHANGED exitCode
    /\ UNCHANGED <<shutdownRequested, eventfd, handlers, sigPc, sigValue, delivered,
                   sigBudget>>
    /\ UNCHANGED <<filterVars, requestVars, pureVars>>

\* server.Start(), second half: service_->Wait() is server_->Wait(), which
\* returns once the server is shut down; main then returns 0.  With server_
\* null the call dereferences a null pointer: the process crashes or the call
\* comes back.
Wait ==
    /\ mainPc = "wait"
    /\ \/ /\ server = "shutdown"
          /\ Exit("0")
       \/ /\ server = "null"
          /\ \E o \in {"SIGSEGV", "0"} : Exit(o)
    /\ UNCHANGED <<server, shutdownRequested, eventfd, handlers, sigPc, sigValue,
                   delivered, sigBudget, failure>>
    /\ UNCHANGED <<filterVars, requestVars, pureVars>>

\* The environment delivers a signal to the running process.  With the handler
\* installed, StaticSignalHandler writes the signal number to the eventfd, whose
\* counter grows by it; otherwise the default disposition ends the process.
Deliver(sig) ==
    /\ exitCode = "running"
    /\ mainPc # "options"
    /\ sigBudget > 0
    /\ sigBudget' = sigBudget - 1
    /\ IF sig \in handlers
       THEN /\ eventfd' = eventfd + SigNum[sig]
            /\ delivered' = IF sig \in ShutdownSignals /\ Signals \subseteq handlers
                            THEN delivered \cup {sig} ELSE delivered
            /\ UNCHANGED <<mainPc, exitCode>>
       ELSE /\ Exit("killed")
            /\ UNCHANGED <<eventfd, delivered>>
    /\ UNCHANGED <<server, shutdownRequested, handlers, sigPc, sigValue, failure>>
    /\ UNCHANGED <<filterVars, requestVars, pureVars>>

\* HandleSignals: read(eventfd) returns the counter and resets it (EAGAIN while
\* it is zero: the thread sleeps and retries).
ReadEventfd ==
    /\ exitCode = "running"
    /\ sigPc = "read"
    /\ eventfd > 0
    /\ sigValue' = eventfd
    /\ eventfd' = 0
    /\ sigPc' = "dispatch"
    /\ UNCHANGED <<mainPc, server, shutdownRequested, handlers, delivered, sigBudget,
                   failure, exitCode>>
    /\ UNCHANGED <<filterVars, requestVars, pureVars>>

\* HandleSignals: handlers_.find(signal) and the call of the handler.  The
\* handlers of SIGINT and SIGTERM store shutdown_requested and then call
\* server.Shutdown(); the handler of SIGUSR1 only logs.
Dispatch ==
    /\ exitCode = "running"
    /\ sigPc = "dispatch"
    /\ IF \E sig \in handlers \cap ShutdownSignals : SigNum[sig] = sigValue
       THEN /\ shutdownRequested' = TRUE
            /\ sigPc' = "shutdown"
       ELSE /\ sigPc' = "read"
            /\ UNCHANGED shutdownRequested
    /\ UNCHANGED <<mainPc, server, eventfd, handlers, sigValue, delivered, sigBudget,
                   failure, exitCode>>
    /\ UNCHANGED <<filterVars, requestVars, pureVars>>

\* DetectorServer::Shutdown -> RpcServerFromThis::Stop: server_->Shutdown with
\* the 100 ms deadline if server_ is set, nothing otherwise.
Stop ==
    /\ exitCode = "running"
    /\ sigPc = "shutdown"
    /\ server' = IF server = "null" THEN "null" ELSE "shutdown"
    /\ sigPc' = "read"
    /\ UNCHANGED <<mainPc, shutdownRequested, eventfd, handlers, sigValue, delivered,
                   sigBudget, failure, exitCode>>
    /\ UNCHANGED <<filterVars, requestVars, pureVars>>

MainStep ==
    \/ ParseOptions
    \/ Construct
    \/ AddHandler("SIGINT", "add_SIGTERM")
    \/ AddHandler("SIGTERM", "add_SIGUSR1")
    \/ AddHandler("SIGUSR1", "initialize")
    \/ Initialize
    \/ Build
    \/ Wait

SignalThreadStep ==
    \/ ReadEventfd
    \/ Dispatch
    \/ Stop

Environment == \E sig \in Signals : Deliver(sig)

MainNext == MainStep \/ SignalThreadStep \/ Environment

(***************************************************************************)
(* The specifications.                                                     *)
(***************************************************************************)
(***************************************************************************)
(* SpecGeom: Polygon::Contains on a polygon and a query point, then        *)
(* Polygon::Scale and Contains on the scaled point.                        *)
(***************************************************************************)
MaxVertices == 4     \* most vertices of a polygon
MaxScale == 2        \* largest scale factor

VertexChoices == {<<x, y>> : x \in {0, 4}, y \in {0, 2, 4}}
PointChoices == {<<x, y>> : x \in 0..4, y \in 0..4}

GeomIdle ==
    /\ gPc = "off"
    /\ gVertices = <<>>
    /\ gPoint = <<0, 0>>
    /\ gScale = <<1, 1>>
    /\ gInside = FALSE
    /\ gScaledInside = FALSE

GeomInit ==
    /\ gPc = "ready"
    /\ gVertices \in SeqsUpTo(VertexChoices, MaxVertices)
    /\ gPoint \in PointChoices
    /\ gScale = <<1, 1>>
    /\ gInside = FALSE
    /\ gScaledInside = FALSE

\* polygon.Contains(x, y); polygon.Scale(sx, sy); polygon.Contains(sx * x, sy * y).
ContainsThenScale ==
    /\ gPc = "ready"
    /\ \E sx, sy \in 1..MaxScale :
          LET poly == MkPolygon(gVertices, "INCLUSION", 1, <<>>)
          IN  /\ gScale' = <<sx, sy>>
              /\ gInside' = Contains(poly.vertices, gPoint[1], gPoint[2])
              /\ gScaledInside' = Contains(Scale(poly, sx, sy).vertices,
                                           sx * gPoint[1], sy * gPoint[2])
    /\ gPc' = "done"
    /\ UNCHANGED <<gVertices, gPoint, boxVars, nmsVars, filterVars, requestVars, mainVars, libVars>>

(***************************************************************************)
(* SpecBoxes: ParseNetworkOutput on a tensor, then                         *)
(* ScaleDetectionsToOriginalFrame of its detections onto a frame.          *)
(***************************************************************************)
MaxAnchors == 1      \* most rows of a tensor

\* Boxes inside, across and beyond the 8 x 8 canvas, of no width, of 2 pixels
\* and wider than the canvas.
AnchorChoices(stride) ==
    {MkAnchor(cx, cy, w, 4, obj, scores) :
        cx \in {0, 8, 20}, cy \in {8, 14, 20}, w \in {0, 4, 24}, obj \in {0, 1, 5},
        scores \in IF stride >= 7 THEN {0, 2, 10} \X {0, 2, 10} ELSE {<<>>}}

TensorChoices ==
    {MkTensor(dims, stride, rows) :
        dims \in 1..5, stride \in {7},
        rows \in SeqsUpTo(AnchorChoices(7), MaxAnchors)}
    \cup UNION {{MkTensor(3, stride, rows) :
                    rows \in SeqsUpTo(AnchorChoices(stride), MaxAnchors)} : stride \in {4, 5}}

FrameChoices == {[width |-> 8, height |-> 8], [width |-> 16, height |-> 8],
                 [width |-> 4, height |-> 6]}

BoxIdle ==
    /\ bPc = "off"
    /\ bTensor = MkTensor(2, 7, <<>>)
    /\ bParsed = <<>>
    /\ bFrame = NetworkSize
    /\ bScaled = <<>>

BoxInit ==
    /\ bPc = "ready"
    /\ bTensor \in TensorChoices
    /\ bParsed = <<>>
    /\ bFrame = NetworkSize
    /\ bScaled = <<>>

ParseOutput ==
    /\ bPc = "ready"
    /\ bParsed' = ParseNetworkOutput(bTensor, NetworkSize)
    /\ bPc' = "parsed"
    /\ UNCHANGED <<bTensor, bFrame, bScaled, geomVars, nmsVars, filterVars, requestVars, mainVars, libVars>>

ScaleBack ==
    /\ bPc = "parsed"
    /\ \E frame \in FrameChoices :
          /\ bFrame' = frame
          /\ bScaled' = ScaleDetectionsToOriginalFrame(bParsed, NetworkSize, frame)
    /\ bPc' = "scaled"
    /\ UNCHANGED <<bTensor, bParsed, geomVars, nmsVars, filterVars, requestVars, mainVars, libVars>>

(***************************************************************************)
(* SpecNms: ApplyNonMaximumSuppression on a detection list, then on its    *)
(* own result.                                                             *)
(***************************************************************************)
MaxNmsInput == 3     \* longest detection list given to NMS

\* Two boxes of IoU 3/5, a box inside the first with IoU 9/20, confidences
\* below, at and above the score threshold.
NmsBoxChoices == {<<0, 0, 4, 5>>, <<1, 0, 4, 5>>, <<0, 0, 3, 3>>}

NmsDetectionChoices ==
    {MkDetection(b[1], b[2], b[3], b[4], c, conf) :
        b \in NmsBoxChoices, c \in {0, 1}, conf \in {5, 10, 50, 90}}

NmsIdle ==
    /\ nPc = "off"
    /\ nInput = <<>>
    /\ nSurvivors = <<>>
    /\ nOutput = <<>>
    /\ nAgain = <<>>

NmsInit ==
    /\ nPc = "ready"
    /\ nInput \in SeqsUpTo(NmsDetectionChoices, MaxNmsInput)
    /\ nSurvivors = <<>>
    /\ nOutput = <<>>
    /\ nAgain = <<>>

ApplyOnce ==
    /\ nPc = "ready"
    /\ nSurvivors' = SurvivingPositions(nInput)
    /\ nOutput' = ApplyNonMaximumSuppression(nInput)
    /\ nPc' = "once"
    /\ UNCHANGED <<nInput, nAgain, geomVars, boxVars, filterVars, requestVars, mainVars, libVars>>

ApplyAgain ==
    /\ nPc = "once"
    /\ nAgain' = ApplyNonMaximumSuppression(nOutput)
    /\ nPc' = "twice"
    /\ UNCHANGED <<nInput, nSurvivors, nOutput, geomVars, boxVars, filterVars,
                   requestVars, mainVars, libVars>>

(***************************************************************************)
(* SpecBuffer: a FrameBuffer shared by producers, a thread that clears it  *)
(* and two consumers.  mutex_ makes the body of each member function one   *)
(* step; a consumer inside condition_.wait is "waiting" until a notify or  *)
(* a spurious wake-up makes it "woken", and then takes the mutex again.    *)
(***************************************************************************)
MaxSize == 2         \* max_size_ of the buffer
MaxPushes == 3       \* PushFrame calls in one run
MaxPops == 2         \* PopFrame calls of one consumer
MaxClears == 1       \* Clear calls in one run

Consumers == {"c1", "c2"}

\* The timeout_ms each consumer passes: c1 waits without timeout.
TimeoutMs == [c1 |-> 0, c2 |-> 50]

otherVarsOfBuffer == <<filterVars, requestVars, mainVars, geomVars, boxVars, nmsVars,
                       signalVars, scaleVars, sizeVars>>

BufferIdle ==
    /\ frames = <<>>
    /\ qPc = [c \in Consumers |-> "off"]
    /\ qOut = [c \in Consumers |-> 0]
    /\ qPopRet = [c \in Consumers |-> "none"]
    /\ qCalls = [c \in Consumers |-> 0]
    /\ qNext = 1
    /\ qRet = "none"
    /\ qPushed = <<>>
    /\ qPopped = <<>>
    /\ qCleared = {}
    /\ qClears = 0

\* FrameBuffer buffer(MaxSize);
BufferInit ==
    /\ frames = <<>>
    /\ qPc = [c \in Consumers |-> "idle"]
    /\ qOut = [c \in Consumers |-> 0]
    /\ qPopRet = [c \in Consumers |-> "none"]
    /\ qCalls = [c \in Consumers |-> MaxPops]
    /\ qNext = 1
    /\ qRet = "none"
    /\ qPushed = <<>>
    /\ qPopped = <<>>
    /\ qCleared = {}
    /\ qClears = MaxClears

IsOverFull(size) == size > MaxSize

\* frames_.size() >= max_size_
IsFull(size) == size >= MaxSize

NotifyNobody(pcs) == {pcs}

\* condition_.notify_one(): one of the threads blocked in wait is unblocked,
\* none if no thread waits.
NotifyOne(pcs) ==
    IF \A c \in Consumers : pcs[c] # "waiting" THEN {pcs}
    ELSE {[pcs EXCEPT ![c] = "woken"] : c \in {d \in Consumers : pcs[d] = "waiting"}}

Back(q) == q[Len(q)]

\* frames_.front()
Front(q) == q[1]

\* bool PushFrame(frame)
PushFrame ==
    /\ qNext <= MaxPushes
    /\ qNext' = qNext + 1
    /\ IF IsFull(Len(frames))
       THEN /\ qRet' = "false"
            /\ UNCHANGED <<frames, qPushed, qPc>>
       ELSE /\ frames' = Append(frames, qNext)
            /\ qPushed' = Append(qPushed, qNext)
            /\ qPc' \in NotifyOne(qPc)
            /\ qRet' = "true"
    /\ UNCHANGED <<qOut, qPopRet, qCalls, qPopped, qCleared, qClears, otherVarsOfBuffer>>

\* frame = frames_.front(); frames_.pop(); return true;
TakeFront(c) ==
    /\ qOut' = [qOut EXCEPT ![c] = Front(frames)]
    /\ qPopped' = Append(qPopped, [by |-> c, frame |-> Front(frames),
                                   waited |-> qPc[c] \in {"waiting", "woken"}])
    /\ frames' = Tail(frames)
    /\ qPopRet' = [qPopRet EXCEPT ![c] = "true"]
    /\ qPc' = [qPc EXCEPT ![c] = "returned"]

\* PopFrame(frame, timeout_ms), up to the first evaluation of the predicate
\* of wait / wait_for: with a frame queued the call does not block.
PopFrame(c) ==
    /\ qPc[c] \in {"idle", "returned"}
    /\ qCalls[c] > 0
    /\ qCalls' = [qCalls EXCEPT ![c] = @ - 1]
    /\ IF frames # <<>>
       THEN TakeFront(c)
       ELSE /\ qPc' = [qPc EXCEPT ![c] = "waiting"]
            /\ qPopRet' = [qPopRet EXCEPT ![c] = "none"]
            /\ UNCHANGED <<frames, qOut, qPopped>>
    /\ UNCHANGED <<qNext, qRet, qPushed, qCleared, qClears, otherVarsOfBuffer>>

\* A consumer blocked in wait wakes up without a notify.
SpuriousWake(c) ==
    /\ qPc[c] = "waiting"
    /\ qPc' = [qPc EXCEPT ![c] = "woken"]
    /\ UNCHANGED <<frames, qOut, qPopRet, qCalls, qNext, qRet, qPushed, qPopped, qCleared,
                   qClears, otherVarsOfBuffer>>

\* The unblocked consumer takes mutex_ and evaluates the predicate again.
Wake(c) ==
    /\ qPc[c] = "woken"
    /\ IF frames # <<>>
       THEN TakeFront(c)
       ELSE /\ qPc' = [qPc EXCEPT ![c] = "waiting"]
            /\ UNCHANGED <<frames, qOut, qPopRet, qPopped>>
    /\ UNCHANGED <<qCalls, qNext, qRet, qPushed, qCleared, qClears, otherVarsOfBuffer>>

\* wait_for runs out of time: it returns the value of the predicate, and
\* PopFrame returns false when that is false.
TimeOut(c) ==
    /\ TimeoutMs[c] > 0
    /\ qPc[c] \in {"waiting", "woken"}
    /\ IF frames # <<>>
       THEN TakeFront(c)
       ELSE /\ qPopRet' = [qPopRet EXCEPT ![c] = "false"]
            /\ qPc' = [qPc EXCEPT ![c] = "returned"]
            /\ UNCHANGED <<frames, qOut, qPopped>>
    /\ UNCHANGED <<qCalls, qNext, qRet, qPushed, qCleared, qClears, otherVarsOfBuffer>>

\* void Clear(): frames_ is swapped with an empty queue.
Clear ==
    /\ qClears > 0
    /\ qClears' = qClears - 1
    /\ qCleared' = qCleared \cup Range(frames)
    /\ frames' = <<>>
    /\ UNCHANGED <<qPc, qOut, qPopRet, qCalls, qNext, qRet, qPushed, qPopped,
                   otherVarsOfBuffer>>

(***************************************************************************)
(* SpecSignals: two SignalSet objects in one process.  eventfd_ and        *)
(* should_stop_ are static members, shared by the objects; handlers_,      *)
(* original_handlers_, is_active_ and the dispatch thread are per object.  *)
(***************************************************************************)
MaxDeliveries == 2   \* signals the environment delivers in one run

Objects == {"a", "b"}

\* The file descriptor eventfd() returns to each object.
FdOf == [a |-> 1, b |-> 2]

RegisteredSignals == {"SIGINT", "SIGUSR1"}

otherVarsOfSignals == <<filterVars, requestVars, mainVars, geomVars, boxVars, nmsVars,
                        bufferVars, scaleVars, sizeVars>>

SignalsIdle ==
    /\ ssLife = [o \in Objects |-> "unborn"]
    /\ isActive = [o \in Objects |-> FALSE]
    /\ staticFd = -1
    /\ shouldStop = FALSE
    /\ fdCounter = [fd \in {1, 2} |-> -1]
    /\ ssHandlers = [o \in Objects |-> {}]
    /\ ssOriginal = [o \in Objects |-> [sig \in RegisteredSignals |-> "unsaved"]]
    /\ disposition = [sig \in RegisteredSignals |-> "default"]
    /\ thrPc = [o \in Objects |-> "none"]
    /\ thrFd = [o \in Objects |-> -1]
    /\ thrValue = [o \in Objects |-> 0]
    /\ ssInvoked = [o \in Objects |-> [sig \in RegisteredSignals |-> 0]]
    /\ ssDelivered = [o \in Objects |-> [sig \in RegisteredSignals |-> 0]]
    /\ ssBudget = 0
    /\ killed = FALSE

\* The process before any SignalSet is constructed.
SignalsInit ==
    /\ ssLife = [o \in Objects |-> "unborn"]
    /\ isActive = [o \in Objects |-> FALSE]
    /\ staticFd = -1
    /\ shouldStop = FALSE
    /\ fdCounter = [fd \in {1, 2} |-> -1]
    /\ ssHandlers = [o \in Objects |-> {}]
    /\ ssOriginal = [o \in Objects |-> [sig \in RegisteredSignals |-> "unsaved"]]
    /\ disposition = [sig \in RegisteredSignals |-> "default"]
    /\ thrPc = [o \in Objects |-> "none"]
    /\ thrFd = [o \in Objects |-> -1]
    /\ thrValue = [o \in Objects |-> 0]
    /\ ssInvoked = [o \in Objects |-> [sig \in RegisteredSignals |-> 0]]
    /\ ssDelivered = [o \in Objects |-> [sig \in RegisteredSignals |-> 0]]
    /\ ssBudget = MaxDeliveries
    /\ killed = FALSE

\* SignalSet::SignalSet -> Initialize: a new eventfd is stored in the static
\* eventfd_, should_stop_ is reset, the HandleSignals thread is started.
SignalSetInitialize(o) ==
    /\ ~killed
    /\ ssLife[o] = "unborn"
    /\ ssLife' = [ssLife EXCEPT ![o] = "alive"]
    /\ fdCounter' = [fdCounter EXCEPT ![FdOf[o]] = 0]
    /\ staticFd' = FdOf[o]
    /\ shouldStop' = FALSE
    /\ isActive' = [isActive EXCEPT ![o] = TRUE]
    /\ thrPc' = [thrPc EXCEPT ![o] = "loop"]
    /\ UNCHANGED <<ssHandlers, ssOriginal, disposition, thrFd, thrValue, ssInvoked,
                   ssDelivered, ssBudget, killed, otherVarsOfSignals>>

\* SignalSet::Add(signal, handler)
SignalSetAdd(o, sig) ==
    /\ ~killed
    /\ ssLife[o] = "alive"
    /\ sig \notin ssHandlers[o]
    /\ ssHandlers' = [ssHandlers EXCEPT ![o] = @ \cup {sig}]
    /\ ssOriginal' = [ssOriginal EXCEPT ![o][sig] =
                         IF @ = "unsaved" THEN disposition[sig] ELSE @]
    /\ disposition' = [disposition EXCEPT ![sig] = "static"]
    /\ UNCHANGED <<ssLife, isActive, staticFd, shouldStop, fdCounter, thrPc, thrFd, thrValue,
                   ssInvoked, ssDelivered, ssBudget, killed, otherVarsOfSignals>>

\* A signal is delivered to the process.  Where Add installed it,
\* StaticSignalHandler writes the signal number to the descriptor in eventfd_,
\* whose counter grows by it; the default action ends the process.
StaticSignalHandler(sig) ==
    /\ ~killed
    /\ ssBudget > 0
    /\ ssBudget' = ssBudget - 1
    /\ IF disposition[sig] = "static"
       THEN /\ fdCounter' = IF staticFd # -1
                            THEN [fdCounter EXCEPT ![staticFd] = @ + SigNum[sig]]
                            ELSE fdCounter
            /\ ssDelivered' = [o \in Objects |->
                                 IF isActive[o] /\ sig \in ssHandlers[o]
                                 THEN [ssDelivered[o] EXCEPT ![sig] = @ + 1]
                                 ELSE ssDelivered[o]]
            /\ UNCHANGED killed
       ELSE /\ killed' = TRUE
            /\ UNCHANGED <<fdCounter, ssDelivered>>
    /\ UNCHANGED <<ssLife, isActive, staticFd, shouldStop, ssHandlers, ssOriginal, disposition,
                   thrPc, thrFd, thrValue, ssInvoked, otherVarsOfSignals>>

\* HandleSignals: while (!should_stop_.load()) { fd = eventfd_.load(); if (fd == -1) break;
HandleSignalsLoop(o) ==
    /\ ~killed
    /\ thrPc[o] = "loop"
    /\ IF shouldStop \/ staticFd = -1
       THEN /\ thrPc' = [thrPc EXCEPT ![o] = "exited"]
            /\ UNCHANGED thrFd
       ELSE /\ thrFd' = [thrFd EXCEPT ![o] = staticFd]
            /\ thrPc' = [thrPc EXCEPT ![o] = "read"]
    /\ UNCHANGED <<ssLife, isActive, staticFd, shouldStop, fdCounter, ssHandlers, ssOriginal,
                   disposition, thrValue, ssInvoked, ssDelivered, ssBudget, killed,
                   otherVarsOfSignals>>

\* HandleSignals: read(fd, ...) returns the counter and resets it; on a zero
\* counter it fails with EAGAIN (the thread sleeps and continues the loop), on
\* a closed descriptor with EBADF (the thread leaves the loop).
HandleSignalsRead(o) ==
    /\ ~killed
    /\ thrPc[o] = "read"
    /\ IF fdCounter[thrFd[o]] = -1
       THEN /\ thrPc' = [thrPc EXCEPT ![o] = "exited"]
            /\ UNCHANGED <<fdCounter, thrValue>>
       ELSE IF fdCounter[thrFd[o]] > 0
       THEN /\ thrValue' = [thrValue EXCEPT ![o] = fdCounter[thrFd[o]]]
            /\ fdCounter' = [fdCounter EXCEPT ![thrFd[o]] = 0]
            /\ thrPc' = [thrPc EXCEPT ![o] = "dispatch"]
       ELSE /\ thrPc' = [thrPc EXCEPT ![o] = "loop"]
            /\ UNCHANGED <<fdCounter, thrValue>>
    /\ UNCHANGED <<ssLife, isActive, staticFd, shouldStop, ssHandlers, ssOriginal, disposition,
                   thrFd, ssInvoked, ssDelivered, ssBudget, killed, otherVarsOfSignals>>

\* HandleSignals: handlers_.find(signal) and the call of the handler found.
HandleSignalsCall(o) ==
    /\ ~killed
    /\ thrPc[o] = "dispatch"
    /\ ssInvoked' = [ssInvoked EXCEPT ![o] =
                        [sig \in RegisteredSignals |->
                            IF sig \in ssHandlers[o] /\ SigNum[sig] = thrValue[o]
                            THEN @[sig] + 1 ELSE @[sig]]]
    /\ thrPc' = [thrPc EXCEPT ![o] = "loop"]
    /\ UNCHANGED <<ssLife, isActive, staticFd, shouldStop, fdCounter, ssHandlers, ssOriginal,
                   disposition, thrFd, thrValue, ssDelivered, ssBudget, killed,
                   otherVarsOfSignals>>

\* SignalSet::Stop, first half: should_stop_ is set and 0 is written to the
\* eventfd, which leaves its counter as it is.
SignalSetStop(o) ==
    /\ ~killed
    /\ ssLife[o] = "alive"
    /\ isActive[o]
    /\ shouldStop' = TRUE
    /\ ssLife' = [ssLife EXCEPT ![o] = "stopping"]
    /\ UNCHANGED <<isActive, staticFd, fdCounter, ssHandlers, ssOriginal, disposition, thrPc,
                   thrFd, thrValue, ssInvoked, ssDelivered, ssBudget, killed,
                   otherVarsOfSignals>>

NoJoin(o) == TRUE

\* signal_thread_->join() returns.
ThreadJoined(o) == thrPc[o] = "exited"

\* SignalSet::Stop, second half: after the join, Cleanup restores the saved
\* actions, clears the maps, closes the descriptor in eventfd_ and stores -1;
\* then is_active_ is cleared.
JoinAndCleanup(o) ==
    /\ ~killed
    /\ ssLife[o] = "stopping"
    /\ ThreadJoined(o)
    /\ disposition' = [sig \in RegisteredSignals |->
                          IF ssOriginal[o][sig] # "unsaved" THEN ssOriginal[o][sig]
                          ELSE disposition[sig]]
    /\ ssOriginal' = [ssOriginal EXCEPT ![o] = [sig \in RegisteredSignals |-> "unsaved"]]
    /\ ssHandlers' = [ssHandlers EXCEPT ![o] = {}]
    /\ fdCounter' = IF staticFd # -1 THEN [fdCounter EXCEPT ![staticFd] = -1] ELSE fdCounter
    /\ staticFd' = -1
    /\ isActive' = [isActive EXCEPT ![o] = FALSE]
    /\ ssLife' = [ssLife EXCEPT ![o] = "stopped"]
    /\ UNCHANGED <<shouldStop, thrPc, thrFd, thrValue, ssInvoked, ssDelivered, ssBudget,
                   killed, otherVarsOfSignals>>

\* ~SignalSet of a stopped object: Stop is called again and returns at once.
SignalSetDestroy(o) ==
    /\ ~killed
    /\ ssLife[o] = "stopped"
    /\ IF ~isActive[o]
       THEN UNCHANGED shouldStop
       ELSE shouldStop' = TRUE
    /\ ssLife' = [ssLife EXCEPT ![o] = "destroyed"]
    /\ UNCHANGED <<isActive, staticFd, fdCounter, ssHandlers, ssOriginal, disposition,
                   thrPc, thrFd, thrValue, ssInvoked, ssDelivered, ssBudget, killed,
                   otherVarsOfSignals>>

(***************************************************************************)
(* SpecScale: Polygon::Scale on polygons of every type, with and without   *)
(* vertices, by positive, zero and negative factors.                       *)
(***************************************************************************)
MaxScaleVertices == 2   \* most vertices of a polygon given to Scale

ScaleVertexChoices == {<<0, 0>>, <<3, -2>>, <<-1, 5>>}

ScaleFactorChoices == {-2, 0, 1, 3}

ScalePolygonChoices ==
    {MkPolygon(v, t, p, c) :
        v \in SeqsUpTo(ScaleVertexChoices, MaxScaleVertices),
        t \in {"INCLUSION", "EXCLUSION"}, p \in {-1, 3}, c \in {<<>>, <<2, 1>>}}

ScaleIdle ==
    /\ kPc = "off"
    /\ kPolygon = MkPolygon(<<>>, "UNSPECIFIED", 0, <<>>)
    /\ kFactors = <<1, 1>>
    /\ kScaled = MkPolygon(<<>>, "UNSPECIFIED", 0, <<>>)

ScaleInit ==
    /\ kPc = "ready"
    /\ kPolygon \in ScalePolygonChoices
    /\ kFactors = <<1, 1>>
    /\ kScaled = kPolygon

\* polygon.Scale(sx, sy)
ScalePolygon ==
    /\ kPc = "ready"
    /\ \E sx, sy \in ScaleFactorChoices :
          /\ kFactors' = <<sx, sy>>
          /\ kScaled' = Scale(kPolygon, sx, sy)
    /\ kPc' = "scaled"
    /\ UNCHANGED <<kPolygon, filterVars, requestVars, mainVars, geomVars, boxVars, nmsVars,
                   bufferVars, signalVars, sizeVars>>

(***************************************************************************)
(* SpecSizes: the model-input size each stage of one ProcessFrame call     *)
(* uses, for a configured model path and width / height options.           *)
(***************************************************************************)
\* std::string::find(sub) != npos
HasSubstring(path, sub) ==
    \E i \in 1..(Len(path) - Len(sub) + 1) : SubSeq(path, i, i + Len(sub) - 1) = sub

\* ProcessFrame: 640 x 640 for a path that contains "yolo" or "YOLO", else 224 x 224.
SelectModelSize(path) ==
    IF HasSubstring(path, <<"y", "o", "l", "o">>) \/ HasSubstring(path, <<"Y", "O", "L", "O">>)
    THEN <<640, 640>>
    ELSE <<224, 224>>

\* options_.Get<int>("width"), options_.Get<int>("height")
OptionsSize == <<zWidth, zHeight>>

ModelPathChoices ==
    { <<"y", "o", "l", "o", "v", "7">>, <<"m", "y", "Y", "O", "L", "O">>,
      <<"Y", "o", "l", "o">>, <<"r", "e", "s", "n", "e", "t">>, <<"y", "o", "l">> }

\* Values of the width and height options (any positive integer is valid; 640
\* is the default).
SizeOptionChoices == {224, 416, 640}

SizeStages == <<"zones", "canvas", "parser", "inverse">>

SizesIdle ==
    /\ zPc = 0
    /\ zModel = <<>>
    /\ zWidth = 640
    /\ zHeight = 640
    /\ zUsed = [i \in 1..4 |-> <<0, 0>>]

SizesInit ==
    /\ zPc = 1
    /\ zModel \in ModelPathChoices
    /\ zWidth \in SizeOptionChoices
    /\ zHeight \in SizeOptionChoices
    /\ zUsed = [i \in 1..4 |-> <<0, 0>>]

UseSize(stage, size) ==
    /\ zPc \in 1..4
    /\ SizeStages[zPc] = stage
    /\ zUsed' = [zUsed EXCEPT ![zPc] = size]
    /\ zPc' = zPc + 1
    /\ UNCHANGED <<zModel, zWidth, zHeight, filterVars, requestVars, mainVars, geomVars,
                   boxVars, nmsVars, bufferVars, signalVars, scaleVars>>

\* ProcessFrame: model_size scales the zones and is the size of resized_frame.
ScaleZones == UseSize("zones", SelectModelSize(zModel))

\* PreprocessFrame: network_input_size, the letterbox canvas.
LetterboxCanvas == UseSize("canvas", OptionsSize)

\* ParseNetworkOutput: network_width, network_height.
ParserPixels == UseSize("parser", OptionsSize)

\* ScaleDetectionsToOriginalFrame: model_size.
InverseLetterbox == UseSize("inverse", OptionsSize)

LibIdle == BufferIdle /\ SignalsIdle /\ ScaleIdle /\ SizesIdle

PureIdle == GeomIdle /\ BoxIdle /\ NmsIdle /\ LibIdle

InitFilter == FilterInit /\ RequestIdle /\ MainIdle /\ PureIdle

NextFilter == ApplyFilter

SpecFilter == InitFilter /\ [][NextFilter]_vars

Init == FilterIdle /\ RequestInit /\ MainIdle /\ PureIdle

Next == RequestNext

Spec == Init /\ [][Next]_vars

InitBuffer ==
    /\ FilterIdle /\ RequestIdle /\ MainIdle /\ GeomIdle /\ BoxIdle /\ NmsIdle
    /\ BufferInit /\ SignalsIdle /\ ScaleIdle /\ SizesIdle

NextBuffer ==
    \/ PushFrame
    \/ Clear
    \/ \E c \in Consumers :
          \/ PopFrame(c)
          \/ SpuriousWake(c)
          \/ Wake(c)
          \/ TimeOut(c)

SpecBuffer == InitBuffer /\ [][NextBuffer]_vars

\* A consumer that was unblocked, or whose wait_for has run out of time, gets
\* the mutex and runs.
BufferFairness ==
    \A c \in Consumers : WF_vars(Wake(c)) /\ WF_vars(TimeOut(c))

SpecBufferFair == SpecBuffer /\ BufferFairness

InitSignals ==
    /\ FilterIdle /\ RequestIdle /\ MainIdle /\ GeomIdle /\ BoxIdle /\ NmsIdle
    /\ BufferIdle /\ SignalsInit /\ ScaleIdle /\ SizesIdle

NextSignals ==
    \/ \E o \in Objects :
          \/ SignalSetInitialize(o)
          \/ \E sig \in RegisteredSignals : SignalSetAdd(o, sig)
          \/ HandleSignalsLoop(o)
          \/ HandleSignalsRead(o)
          \/ HandleSignalsCall(o)
          \/ SignalSetStop(o)
          \/ JoinAndCleanup(o)
          \/ SignalSetDestroy(o)
    \/ \E sig \in RegisteredSignals : StaticSignalHandler(sig)

SpecSignals == InitSignals /\ [][NextSignals]_vars

InitScale ==
    /\ FilterIdle /\ RequestIdle /\ MainIdle /\ GeomIdle /\ BoxIdle /\ NmsIdle
    /\ BufferIdle /\ SignalsIdle /\ ScaleInit /\ SizesIdle

NextScale == ScalePolygon

SpecScale == InitScale /\ [][NextScale]_vars

InitSizes ==
    /\ FilterIdle /\ RequestIdle /\ MainIdle /\ GeomIdle /\ BoxIdle /\ NmsIdle
    /\ BufferIdle /\ SignalsIdle /\ ScaleIdle /\ SizesInit

NextSizes == ScaleZones \/ LetterboxCanvas \/ ParserPixels \/ InverseLetterbox

SpecSizes == InitSizes /\ [][NextSizes]_vars

InitGeom == FilterIdle /\ RequestIdle /\ MainIdle /\ GeomInit /\ BoxIdle /\ NmsIdle /\ LibIdle

NextGeom == ContainsThenScale

SpecGeom == InitGeom /\ [][NextGeom]_vars

InitBoxes == FilterIdle /\ RequestIdle /\ MainIdle /\ GeomIdle /\ BoxInit /\ NmsIdle /\ LibIdle

NextBoxes == ParseOutput \/ ScaleBack

SpecBoxes == InitBoxes /\ [][NextBoxes]_vars

InitNms == FilterIdle /\ RequestIdle /\ MainIdle /\ GeomIdle /\ BoxIdle /\ NmsInit /\ LibIdle

NextNms == ApplyOnce \/ ApplyAgain

SpecNms == InitNms /\ [][NextNms]_vars

\* The operating system schedules the main thread and the dispatch thread;
\* nothing obliges the environment to send a signal.
InitMain == FilterIdle /\ RequestIdle /\ MainInit /\ PureIdle

SpecMain ==
    /\ InitMain
    /\ [][MainNext]_vars
    /\ WF_vars(MainStep)
    /\ WF_vars(SignalThreadStep)


(***************************************************************************)
(* Properties of the zone filter (checked under SpecFilter).               *)
(***************************************************************************)
\* The zones of polys that contain the centre of d, and among them those of
\* the highest priority.
ContainingZones(d, polys) ==
    {i \in 1..Len(polys) : ContainsCenter(polys[i], GetDetectionCenter(d))}

TopZones(d, polys) ==
    {i \in ContainingZones(d, polys) :
        \A j \in ContainingZones(d, polys) : polys[j].priority <= polys[i].priority}

ZoneAdmits(z, d) ==
    /\ z.type = "INCLUSION"
    /\ \/ z.target_classes = <<>>
       \/ \E k \in 1..Len(z.target_classes) : z.target_classes[k] = d.class_id

\* The fate the keep rule gives d: dropped when no zone contains its centre,
\* else what a highest-priority containing zone says (one value unless two such
\* zones of equal priority disagree).
KeepVerdicts(d, polys) ==
    IF ContainingZones(d, polys) = {} THEN {FALSE}
    ELSE {ZoneAdmits(polys[i], d) : i \in TopZones(d, polys)}

RECURSIVE KeepBy(_, _)
KeepBy(dets, flags) ==
    IF Len(dets) = 0 THEN <<>>
    ELSE (IF Head(flags) THEN <<Head(dets)>> ELSE <<>>) \o KeepBy(Tail(dets), Tail(flags))

\* C1: the filter returns, in input order, exactly the detections whose centre
\* lies in some zone and whose highest-priority containing zone is an Inclusion
\* with an empty class list or one holding the detection's class; zones of lower
\* priority have no say.
C1_KeepRule ==
    fPc = "filtered" =>
        \E flags \in [1..Len(fDetections) -> BOOLEAN] :
            /\ \A i \in 1..Len(fDetections) : flags[i] \in KeepVerdicts(fDetections[i], fPolygons)
            /\ fFiltered = KeepBy(fDetections, flags)

\* A detection of class 0 inside a priority-2 Inclusion for class 1 only and a
\* priority-1 Inclusion for any class has been filtered, and was dropped.
C1_Witness ==
    /\ fPc = "filtered"
    /\ Len(fDetections) = 1
    /\ fDetections[1].class_id = 0
    /\ \E a, b \in ContainingZones(fDetections[1], fPolygons) :
          /\ fPolygons[a].priority > fPolygons[b].priority
          /\ fPolygons[a].type = "INCLUSION" /\ fPolygons[a].target_classes = <<1>>
          /\ fPolygons[b].type = "INCLUSION" /\ fPolygons[b].target_classes = <<>>
    /\ fFiltered = <<>>

\* The containing zones of d by descending priority, equal priorities in list
\* order: what a stable sort gives.
RECURSIVE StableOrder(_, _)
StableOrder(polys, todo) ==
    IF todo = {} THEN <<>>
    ELSE LET first == CHOOSE i \in todo :
                         \A j \in todo : \/ polys[i].priority > polys[j].priority
                                         \/ polys[i].priority = polys[j].priority /\ i <= j
         IN  <<first>> \o StableOrder(polys, todo \ {first})

\* What the earliest of the highest-priority containing zones says about d.
EarliestTopZoneAdmits(d, polys) ==
    LET order == StableOrder(polys, ContainingZones(d, polys))
    IN  Len(order) > 0 /\ ZoneAdmits(polys[order[1]], d)

\* C2: the sorts keep zones of equal priority in list order, so when several
\* zones containing a detection centre share the highest priority the one
\* earliest in the zone list decides: the filter keeps exactly the detections
\* that this zone admits.
C2_StableTieBreak ==
    fPc = "filtered" =>
        fFiltered = KeepBy(fDetections,
                           [i \in 1..Len(fDetections) |->
                               EarliestTopZoneAdmits(fDetections[i], fPolygons)])

(***************************************************************************)
(* Properties of the request pipeline (checked under Spec).                *)
(***************************************************************************)
IsPrefix(s, full) == Len(s) <= Len(full) /\ s = SubSeq(full, 1, Len(s))

IsPermutationOf(a, b) ==
    /\ Len(a) = Len(b)
    /\ \E f \in Perms(Len(a)) : a = [i \in 1..Len(a) |-> b[f[i]]]

\* ProcessFrame has finished its zone checks for the request of thread t.
ZonesChecked(t) == trace[t] # <<>> /\ pc[t] # "validate"

NoUsableZone(zl) == \A i \in 1..Len(zl) : zl[i].type = "UNSPECIFIED"

\* C3: once the zones are checked, the request is rejected with
\* INVALID_ARGUMENT exactly when its zone list is empty or all UNSPECIFIED; a
\* rejected request has success = false, no result frame and has run no stage
\* after validation; any other request goes on with exactly its
\* non-UNSPECIFIED zones.
C3_ZoneValidation ==
    \A t \in Threads :
        ZonesChecked(t) =>
            /\ status[t] = "INVALID_ARGUMENT" <=> NoUsableZone(request[t])
            /\ status[t] = "INVALID_ARGUMENT" =>
                  /\ pc[t] = "done"
                  /\ response[t] = [InitialResponse EXCEPT !.touched = TRUE]
                  /\ trace[t] = <<"validate">>
                  /\ blob[t] = "none" /\ networkOutput[t] = "none"
            /\ status[t] # "INVALID_ARGUMENT" =>
                  /\ IsPermutationOf(polygons[t],
                                     SelectSeq(request[t], LAMBDA z : z.type # "UNSPECIFIED"))
                  /\ filterInput[t] # <<>> => filterInput[t] = ScaledPolygons(polygons[t])

\* A request with an UNSPECIFIED zone among usable ones has passed validation
\* and goes on with the two usable zones.
C3_Witness ==
    \E t \in Threads :
        /\ pc[t] = "preprocess"
        /\ \E i \in 1..Len(request[t]) : request[t][i].type = "UNSPECIFIED"
        /\ Len(polygons[t]) = 2

HasShortZone(zl) == \E i \in 1..Len(zl) : Len(zl[i].vertices) < 3

\* C4: a request that carries a zone of fewer than 3 vertices never gets an OK
\* answer, and every polygon handed to the filter stage has at least 3
\* vertices.
C4_ShortZoneRejected ==
    \A t \in Threads :
        /\ status[t] = "OK" => ~HasShortZone(request[t])
        /\ filterInput[t] # <<>> => ~HasShortZone(filterInput[t])

\* C5: the stages a request has entered are always an initial part of the
\* stage order; a request ends in exactly one of OK, INVALID_ARGUMENT and
\* INTERNAL; it answers OK only after all nine stages, a rejected one stopped
\* at validation; the result frame and success = true are there only in an OK
\* answer, hence after rendering.
C5_StageOrder ==
    \A t \in Threads :
        /\ IsPrefix(trace[t], StageOrder)
        /\ pc[t] = "done" /\ trace[t] # <<>> =>
              status[t] \in {"OK", "INVALID_ARGUMENT", "INTERNAL"}
        /\ pc[t] # "done" => status[t] = "NONE"
        /\ status[t] = "OK" => trace[t] = StageOrder
        /\ status[t] = "INVALID_ARGUMENT" => trace[t] = <<"validate">>
        /\ response[t].hasResult \/ response[t].success =>
              /\ status[t] = "OK"
              /\ response[t].hasResult /\ response[t].success
              /\ \E k \in 1..Len(trace[t]) : trace[t][k] = "render"

\* A request has answered OK after the nine stages.
C5_Witness ==
    \E t \in Threads :
        /\ status[t] = "OK"
        /\ trace[t] = StageOrder
        /\ response[t].hasResult

FatalStages == {"decode", "preprocess", "inference", "render", "serialize"}
RecoveredStages == {"parse", "nms", "scale", "filter"}

C7_OwnInput ==
    \A t \in Threads : networkOutput[t] # "none" => networkOutput[t] = t

\* C8: a request whose context was cancelled before Invoke looked at it ends
\* with CANCELLED, the handler not invoked and the response untouched;
\* CANCELLED is returned in no other case; and no response ever carries a
\* result frame without success = true and an OK status.
C8_Cancellation ==
    \A t \in Threads :
        /\ cancelAt[t] = "before_invoke" /\ pc[t] # "received" =>
              /\ pc[t] = "done"
              /\ status[t] = "CANCELLED"
              /\ trace[t] = <<>>
              /\ response[t] = InitialResponse
        /\ status[t] = "CANCELLED" => cancelAt[t] = "before_invoke"
        /\ response[t].hasResult => response[t].success /\ status[t] = "OK"

\* A request cancelled before Invoke has been answered CANCELLED.
C8_Witness ==
    \E t \in Threads :
        /\ cancelAt[t] = "before_invoke"
        /\ pc[t] = "done"
        /\ status[t] = "CANCELLED"

(***************************************************************************)
(* Properties of the process lifecycle (checked under SpecMain).           *)
(***************************************************************************)
\* C9: once SIGINT or SIGTERM has been delivered with all handlers registered,
\* main eventually returns 0 (unless startup itself fails).
C9_ShutdownLiveness ==
    (delivered # {}) ~> (exitCode = "0" \/ failure # "none")

\* C10: the process ends with 0 after a clean shutdown and with 1 after
\* invalid options or a model that cannot be loaded.
C10_ExitCodes ==
    exitCode \notin {"running", "killed"} =>
        /\ failure = "none" => exitCode = "0"
        /\ failure \in {"invalid_options", "model_load_failed", "start_threw"} => exitCode = "1"

(***************************************************************************)
(* Properties of the polygon geometry (checked under SpecGeom).            *)
(***************************************************************************)
\* The point p lies on the closed segment from a to b.
OnSegment(p, a, b) ==
    /\ (b[1] - a[1]) * (p[2] - a[2]) = (b[2] - a[2]) * (p[1] - a[1])
    /\ (p[1] - a[1]) * (p[1] - b[1]) <= 0
    /\ (p[2] - a[2]) * (p[2] - b[2]) <= 0

\* The point p is a vertex of the polygon or lies on one of its edges, the
\* closing edge from the last vertex to the first among them.
OnBoundary(vertices, p) ==
    \E i \in 1..Len(vertices) :
        OnSegment(p, vertices[i], vertices[(i % Len(vertices)) + 1])

\* The edge from a to b crosses the horizontal ray from p toward +x: it spans
\* the height of p (the lower end counted, the upper end not) and meets that
\* height to the right of p.
CrossesRay(p, a, b) ==
    LET lo == IF a[2] <= b[2] THEN a ELSE b
        hi == IF a[2] <= b[2] THEN b ELSE a
    IN  /\ lo[2] <= p[2] /\ p[2] < hi[2]
        /\ (hi[1] - lo[1]) * (p[2] - lo[2]) > (p[1] - lo[1]) * (hi[2] - lo[2])

\* Even-odd rule: the number of edges crossing the ray is odd.
OracleInside(vertices, p) ==
    Cardinality({i \in 1..Len(vertices) :
                    CrossesRay(p, vertices[i], vertices[(i % Len(vertices)) + 1])}) % 2 = 1

\* C11: Contains is false for every point that is a vertex of the polygon or
\* lies on one of its edges, and for every point when the polygon has fewer
\* than 3 vertices.
C11_BoundaryOutside ==
    gPc = "done" =>
        /\ Len(gVertices) < 3 => ~gInside
        /\ OnBoundary(gVertices, gPoint) => ~gInside

\* A query point on the closing edge of a polygon of 3 or more vertices, not a
\* vertex itself, has been tested.
C11_Witness ==
    /\ gPc = "done"
    /\ Len(gVertices) >= 3
    /\ OnSegment(gPoint, gVertices[Len(gVertices)], gVertices[1])
    /\ \A i \in 1..Len(gVertices) : gVertices[i] # gPoint
    /\ gVertices[Len(gVertices)] # gVertices[1]
    /\ ~gInside

\* C12: for a polygon of 3 or more vertices and a point not on its boundary,
\* Contains agrees with the even-odd ray-casting oracle.
C12_RayCasting ==
    gPc = "done" /\ Len(gVertices) >= 3 /\ ~OnBoundary(gVertices, gPoint) =>
        gInside = OracleInside(gVertices, gPoint)

\* C13: Contains(P, x, y) equals Contains(P', sx * x, sy * y) for P' the polygon
\* P after Scale(sx, sy).
C13_ScalingCommutes ==
    gPc = "done" => gInside = gScaledInside

(***************************************************************************)
(* Properties of the parser and the inverse letterbox (checked under       *)
(* SpecBoxes).                                                             *)
(***************************************************************************)
BoxWithin(b, size) ==
    /\ b.width >= 1 /\ b.height >= 1
    /\ b.x >= 0 /\ b.y >= 0
    /\ b.x + b.width <= size.width
    /\ b.y + b.height <= size.height

\* C14: every box the parser returns lies within the model-input canvas and
\* every box the inverse letterbox returns lies within the frame it maps to,
\* each with width and height of at least 1.
C14_BoxInvariant ==
    /\ bPc \in {"parsed", "scaled"} =>
          \A i \in 1..Len(bParsed) : BoxWithin(bParsed[i].bbox, NetworkSize)
    /\ bPc = "scaled" =>
          \A i \in 1..Len(bScaled) : BoxWithin(bScaled[i].bbox, bFrame)

MaxScore(scores) == MaxOfSet({scores[j] : j \in 1..Len(scores)})

\* The anchor passes the acceptance rule of the parser.
Accepted(a) ==
    /\ a.box_confidence * 10 >= ConfidenceThreshold
    /\ Len(a.class_scores) > 0
    /\ a.box_confidence * MaxScore(a.class_scores) >= ConfidenceThreshold

\* C18: from a tensor of rank 2, 3 or 4 and stride of at least 5 the parser
\* returns one detection per accepted anchor, in anchor order; its class is
\* the first class of the highest score, its confidence the box confidence
\* times that score, which is at least the threshold.
C18_ParserAcceptance ==
    bPc # "ready" /\ bTensor.dims \in 2..4 /\ bTensor.stride >= 5 =>
        LET accepted == SelectSeq(bTensor.rows, Accepted)
        IN  /\ Len(bParsed) = Len(accepted)
            /\ \A i \in 1..Len(bParsed) :
                  LET a == accepted[i]
                      c == bParsed[i].class_id + 1
                  IN  /\ c \in 1..Len(a.class_scores)
                      /\ a.class_scores[c] = MaxScore(a.class_scores)
                      /\ \A j \in 1..(c - 1) : a.class_scores[j] < a.class_scores[c]
                      /\ bParsed[i].confidence = a.box_confidence * a.class_scores[c]
                      /\ bParsed[i].confidence >= ConfidenceThreshold

\* An anchor whose confidence is exactly the threshold has been emitted.
C18_Witness ==
    /\ bPc = "parsed"
    /\ Len(bTensor.rows) >= 1
    /\ Len(bParsed) = Len(bTensor.rows)
    /\ bParsed[1].confidence = ConfidenceThreshold

(***************************************************************************)
(* Properties of the non-maximum suppression (checked under SpecNms).      *)
(***************************************************************************)
\* The positions of the detections of class c, and the list of them.
PositionsOfClass(dets, c) == SelectSeq([i \in 1..Len(dets) |-> i], LAMBDA i : dets[i].class_id = c)

OfClass(dets, c) == SelectSeq(dets, LAMBDA d : d.class_id = c)

RECURSIVE ByScore(_, _)
ByScore(dets, todo) ==
    IF todo = {} THEN <<>>
    ELSE LET top == CHOOSE i \in todo :
                       \A j \in todo : \/ dets[i].confidence > dets[j].confidence
                                       \/ dets[i].confidence = dets[j].confidence /\ i <= j
         IN  <<top>> \o ByScore(dets, todo \ {top})

\* IoU of the two boxes below the threshold (strict), or at most the threshold.
IoUAllows(a, b, strict) ==
    LET inter == IntersectionArea(a, b)
        union == Area(a) + Area(b) - inter
    IN  IF strict THEN inter * 100 < NmsThreshold * union
        ELSE inter * 100 <= NmsThreshold * union

\* Greedy suppression within each class.
RECURSIVE GreedyKept(_, _, _, _)
GreedyKept(dets, order, kept, strict) ==
    IF Len(order) = 0 THEN kept
    ELSE LET i == Head(order)
             keep == \A k \in 1..Len(kept) :
                        dets[kept[k]].class_id = dets[i].class_id
                            => IoUAllows(dets[i].bbox, dets[kept[k]].bbox, strict)
         IN  GreedyKept(dets, Tail(order), IF keep THEN Append(kept, i) ELSE kept, strict)

AboveScoreThreshold(dets) == {i \in 1..Len(dets) : dets[i].confidence > ScoreThreshold}

C17_Idempotent ==
    nPc = "twice" => nAgain = nOutput

(***************************************************************************)
(* Further properties of the request pipeline (checked under Spec).        *)
(***************************************************************************)
BadShape(shape) == shape.dims \notin {2, 3, 4} \/ shape.stride < 5

\* C19: when the output tensor has a rank outside {2, 3, 4} or fewer than 5
\* values per anchor, the parser returns no detection, no later stage has any,
\* and the request ends with OK, success = true and a result frame without
\* boxes; an exception in a post-processing stage does not change that, only
\* one in render or serialize (which fails any request) does.
C19_ShapeErrorStillOk ==
    \A t \in Threads :
        outputShape[t] # NoShape /\ BadShape(outputShape[t]) =>
            /\ pc[t] # "parse" => detections[t] = <<>>
            /\ status[t] = "OK" => response[t].boxes = <<>>
            /\ pc[t] = "done" /\ raised[t] \cap FatalStages = {} =>
                  /\ status[t] = "OK"
                  /\ response[t].success /\ response[t].hasResult
                  /\ response[t].boxes = <<>>

\* A request whose output tensor has rank 5 has been answered OK.
C19_Witness ==
    \E t \in Threads :
        /\ outputShape[t].dims = 5
        /\ pc[t] = "done"
        /\ status[t] = "OK"
        /\ response[t].hasResult /\ response[t].boxes = <<>>

\* C20: the zones given to the filter are the request's zones in original-frame
\* coordinates, and the boxes of an OK response lie within the request frame.
C20_OriginalFrameCoordinates ==
    \A t \in Threads :
        /\ filterInput[t] # <<>> => filterInput[t] = polygons[t]
        /\ status[t] = "OK" =>
              \A i \in 1..Len(response[t].boxes) : BoxWithin(response[t].boxes[i].bbox, FrameSize)


(***************************************************************************)
(* Properties of FrameBuffer (checked under SpecBuffer, the liveness of    *)
(* PopFrame under SpecBufferFair).                                         *)
(***************************************************************************)
\* C24: the buffer never holds more than max_size frames; a PushFrame call
\* returns false and leaves the buffer unchanged exactly when the buffer holds
\* max_size frames at the call, and otherwise appends its frame and returns true.
C24_Capacity ==
    /\ [](Len(frames) <= MaxSize)
    /\ [][qNext' # qNext =>
            IF Len(frames) >= MaxSize
            THEN frames' = frames /\ qRet' = "false"
            ELSE frames' = Append(frames, qNext) /\ qRet' = "true"]_vars

\* A PushFrame call has been refused by a full buffer.
C24_Witness == qRet = "false" /\ Len(frames) = MaxSize /\ Len(qPushed) = MaxSize

Blocked(c) == qPc[c] \in {"waiting", "woken"}

\* What C25 says of the value PopFrame returns: without timeout never false;
\* true only with the front frame stored in the output and removed; false only
\* with a timeout, an empty buffer, and buffer and outputs left as they were.
PopReturnContract ==
    /\ [](\A c \in Consumers : TimeoutMs[c] = 0 => qPopRet[c] # "false")
    /\ [][\A c \in Consumers :
            /\ qPopRet'[c] = "true" /\ (qPopRet[c] # "true" \/ qCalls'[c] # qCalls[c]) =>
                  frames # <<>> /\ qOut'[c] = frames[1] /\ frames' = Tail(frames)
            /\ qPopRet'[c] = "false" /\ qPopRet[c] # "false" =>
                  /\ TimeoutMs[c] > 0
                  /\ frames = <<>> /\ frames' = frames /\ qOut' = qOut]_vars

\* C25 as stated: the return contract, and a PopFrame blocked without timeout
\* returns once a frame is queued, unless another consumer takes a frame.
C25_PopWaits ==
    /\ PopReturnContract
    /\ \A c \in Consumers : \A n \in 0..(2 * MaxPops) :
          TimeoutMs[c] = 0 =>
             ((Blocked(c) /\ frames # <<>> /\ Len(qPopped) = n)
                 ~> (qPc[c] = "returned" \/ Len(qPopped) > n))

\* C25 as amended: the return contract, and a PopFrame blocked without timeout
\* returns once a frame is queued, unless another consumer takes a frame or
\* Clear empties the buffer.
C25_PopWaitsUnlessCleared ==
    /\ PopReturnContract
    /\ \A c \in Consumers : \A n \in 0..(2 * MaxPops) : \A k \in 0..MaxClears :
          TimeoutMs[c] = 0 =>
             ((Blocked(c) /\ frames # <<>> /\ Len(qPopped) = n /\ qClears = k)
                 ~> (qPc[c] = "returned" \/ Len(qPopped) > n \/ qClears < k))

\* The consumer without timeout blocked and then returned a frame, the one
\* with a timeout returned false, and Clear has removed a frame.
C25_Witness ==
    /\ \E i \in 1..Len(qPopped) : qPopped[i].by = "c1" /\ qPopped[i].waited
    /\ qPopRet["c1"] = "true"
    /\ qPopRet["c2"] = "false"
    /\ qCleared # {}

PushPosition(f) == CHOOSE k \in 1..Len(qPushed) : qPushed[k] = f

\* C29: the frames PopFrame returned were pushed successfully, come in the
\* order of their pushes, none of them twice, and none was removed by Clear.
C29_Fifo ==
    /\ \A i \in 1..Len(qPopped) : qPopped[i].frame \in Range(qPushed)
    /\ \A i, j \in 1..Len(qPopped) :
          i < j => PushPosition(qPopped[i].frame) < PushPosition(qPopped[j].frame)
    /\ \A i \in 1..Len(qPopped) : qPopped[i].frame \notin qCleared

\* Both consumers have been given frames, and Clear has removed one.
C29_Witness ==
    /\ Len(qPopped) >= 2
    /\ qPopped[1].by # qPopped[2].by
    /\ qCleared # {}


(***************************************************************************)
(* Properties of SignalSet (checked under SpecSignals).                    *)
(***************************************************************************)
\* Nothing is pending: every eventfd counter is zero (or closed) and no
\* dispatch thread holds a value it has read but not yet dispatched.
SignalsQuiescent ==
    /\ \A fd \in {1, 2} : fdCounter[fd] <= 0
    /\ \A o \in Objects : thrPc[o] # "dispatch"

\* C22: a handler is never invoked more often than its signal was delivered,
\* and once nothing is pending, the handler of each signal delivered to the
\* only SignalSet of the process, never stopped, has been invoked once per delivery.
C22_ExactlyOnce ==
    \A o \in Objects : \A sig \in RegisteredSignals :
        /\ ssInvoked[o][sig] <= ssDelivered[o][sig]
        /\ (/\ ssLife[o] = "alive"
            /\ \A p \in Objects \ {o} : ssLife[p] = "unborn"
            /\ SignalsQuiescent)
              => ssInvoked[o][sig] = ssDelivered[o][sig]

Stopped(o) == ssLife[o] \in {"stopped", "destroyed"}

\* C23: IsActive is true from construction until Stop has run; once Stop has
\* returned IsActive is false, the dispatch thread has ended, no handler is
\* left and none is invoked any more; Stop restores for each registered signal
\* the action it had when the object first registered it; a second Stop
\* changes nothing.
C23_Stop ==
    /\ [](\A o \in Objects :
            /\ ssLife[o] \in {"alive", "stopping"} => isActive[o]
            /\ Stopped(o) => ~isActive[o] /\ thrPc[o] = "exited" /\ ssHandlers[o] = {})
    /\ [][\A o \in Objects :
            /\ Stopped(o) => ssInvoked'[o] = ssInvoked[o]
            /\ ssLife[o] = "stopping" /\ ssLife'[o] = "stopped" =>
                  \A sig \in RegisteredSignals :
                      ssOriginal[o][sig] # "unsaved" => disposition'[sig] = ssOriginal[o][sig]
            /\ ssLife[o] = "stopped" /\ ssLife'[o] = "destroyed" =>
                  UNCHANGED <<isActive, staticFd, shouldStop, fdCounter, ssHandlers,
                              ssOriginal, disposition, thrPc>>]_vars

\* A SignalSet whose handler had been invoked was stopped, a signal was
\* delivered after that, and the object was destroyed.
C23_Witness ==
    \E o \in Objects : \E sig \in RegisteredSignals :
        /\ ssLife[o] = "destroyed"
        /\ ssInvoked[o][sig] = 1
        /\ ssBudget = 0
        /\ disposition[sig] = "default"
        /\ killed

\* C30: a SignalSet that has not been stopped is active and its dispatch
\* thread runs, whatever is done to the other object.
C30_Independent ==
    \A o \in Objects :
        ssLife[o] = "alive" => isActive[o] /\ thrPc[o] # "exited"


(***************************************************************************)
(* Polygon::Scale (checked under SpecScale) and the model-input size       *)
(* (checked under SpecSizes).                                              *)
(***************************************************************************)
\* C26: Scale(sx, sy) replaces every vertex (x, y) by (sx * x, sy * y) and
\* leaves the number and order of the vertices, the type, the priority and
\* the target classes as they were.
C26_ScaleFrame ==
    kPc = "scaled" =>
        /\ Len(kScaled.vertices) = Len(kPolygon.vertices)
        /\ \A i \in 1..Len(kPolygon.vertices) :
              kScaled.vertices[i] = <<kFactors[1] * kPolygon.vertices[i][1],
                                      kFactors[2] * kPolygon.vertices[i][2]>>
        /\ kScaled.type = kPolygon.type
        /\ kScaled.priority = kPolygon.priority
        /\ kScaled.target_classes = kPolygon.target_classes

\* A polygon of two vertices with target classes has been scaled by a
\* negative and a different positive factor.
C26_Witness ==
    /\ kPc = "scaled"
    /\ kFactors = <<-2, 3>>
    /\ kPolygon.vertices = <<(<<3, -2>>), (<<-1, 5>>)>>
    /\ kPolygon.target_classes # <<>>

\* C21: the four stages of a request use one model-input size, the one the
\* substring rule gives for the model path.
C21_SingleModelSize ==
    zPc = 5 => \A i \in 1..4 : zUsed[i] = SelectModelSize(zModel)


(***************************************************************************)
(* Recovery inside the post-processing stages (checked under Spec).        *)
(***************************************************************************)
RaisedIn(t, stage) == stage \in raised'[t] /\ stage \notin raised[t]

\* C27: when the NMS stage or the scaling stage catches an exception, the
\* detection list leaves the stage as it entered it and the request goes on
\* to the next stage without a status.
C27_LocalRecovery ==
    [][\A t \in Threads :
          /\ RaisedIn(t, "nms") =>
                detections'[t] = detections[t] /\ pc'[t] = "scale" /\ status'[t] = "NONE"
          /\ RaisedIn(t, "scale") =>
                detections'[t] = detections[t] /\ pc'[t] = "filter" /\ status'[t] = "NONE"]_vars

\* A request in whose NMS stage an exception was caught has been answered OK
\* with its detection drawn.
C27_Witness ==
    \E t \in Threads :
        /\ raised[t] = {"nms"}
        /\ status[t] = "OK"
        /\ response[t].boxes # <<>>


(***************************************************************************)
(* The detections NMS returns (checked under SpecNms).                     *)
(***************************************************************************)
\* C28: each detection ApplyNonMaximumSuppression returns is the detection of
\* the input list whose box survived suppression, unchanged, and has a
\* confidence of at least the score threshold.
C28_OutputMapping ==
    nPc # "ready" =>
        /\ Len(nOutput) = Len(nSurvivors)
        /\ \A k \in 1..Len(nOutput) :
              /\ nOutput[k] = nInput[nSurvivors[k]]
              /\ nOutput[k].confidence >= ScoreThreshold

====
